---- MODULE Spec2Model ----
(***************************************************************************)
(* A model of the group moderation bot of src/bot.py.                      *)
(*                                                                         *)
(* The durable state is the document store (Firestore) and the chat        *)
(* platform's group permissions.  One action models one handler, whole.    *)
(* The outcome of every collaborator call (a chat-platform call, a store   *)
(* read or write) is an input of the action.  The handlers are registered  *)
(* without block=False and the Application is built without                *)
(* concurrent_updates, so one handler runs to its end before the next      *)
(* update is taken: the handler is the atomic step.                        *)
(*                                                                         *)
(* Text is a sequence of one-character strings, so that lower(), strip(),  *)
(* replace() and the `in` substring test are computed, not assumed.        *)
(*                                                                         *)
(* `last` records the handler that ran last: what it was given, how the    *)
(* sender resolved, and the chat-platform calls it made, in order.         *)
(*                                                                         *)
(* SpecWarnFaulty lets every store call of a warning command fail; the     *)
(* other specifications take the store calls to succeed (db is connected). *)
(* A reply that fails to send changes no state and is not modelled.        *)
(***************************************************************************)
EXTENDS Integers, Sequences, FiniteSets, TLC

VARIABLES
    warnings,   \* groups/{g}/users/{u}: <<g, u>> -> the "warnings" field; no entry = no document
    run,        \* ghost: per <<g, u>>, the warn events in a row since the count was 0
    perms,      \* the chat platform's default permissions of each group
    filters,    \* groups/{g}/filters/{doc id} -> the filter document
    banned,     \* groups/{g}/banned_words/{doc id} -> the "word" field
    group_settings,   \* group_settings/{g} -> the fields of the document
    broadcast_chats,  \* broadcast_chats/{chat id} -> the document
    now,        \* what datetime.now(timezone.utc) reads
    expiry,     \* ghost: per group, the expiry reports since the countdown was set
    tasks,      \* the handlers that are waiting for a chat-platform call, oldest first
    last        \* ghost: the handler that ran last and the platform calls it made

vars == <<warnings, run, perms, filters, banned, group_settings, broadcast_chats,
          now, expiry, tasks, last>>

\* what the handlers of the first sections leave alone
rest == <<group_settings, broadcast_chats, now, expiry, tasks>>

----------------------------------------------------------------------------
(* Text *)

UpperCase == <<"A","B","C","D","E","F","G","H","I","J","K","L","M",
               "N","O","P","Q","R","S","T","U","V","W","X","Y","Z">>
LowerCase == <<"a","b","c","d","e","f","g","h","i","j","k","l","m",
               "n","o","p","q","r","s","t","u","v","w","x","y","z">>
Whitespace == {" ", "\t", "\n"}

LowerChar(c) ==
    IF \E i \in 1..Len(UpperCase) : UpperCase[i] = c
    THEN LowerCase[CHOOSE i \in 1..Len(UpperCase) : UpperCase[i] = c]
    ELSE c

\* str.lower()
Lower(s) == [i \in 1..Len(s) |-> LowerChar(s[i])]

\* str.strip()
Strip(s) ==
    LET keep == {i \in 1..Len(s) : s[i] \notin Whitespace}
    IN  IF keep = {} THEN <<>>
        ELSE LET lo == CHOOSE i \in keep : \A j \in keep : i <= j
                 hi == CHOOSE i \in keep : \A j \in keep : j <= i
             IN  SubSeq(s, lo, hi)

\* str.replace(" ", "_")
ReplaceSpace(s) == [i \in 1..Len(s) |-> IF s[i] = " " THEN "_" ELSE s[i]]

\* Python's `k in t` on strings
Contains(t, k) ==
    \E i \in 0..(Len(t) - Len(k)) : SubSeq(t, i + 1, i + Len(k)) = k

\* Python's max(0, n)
Max0(n) == IF n < 0 THEN 0 ELSE n

----------------------------------------------------------------------------
(* Identities and role resolution *)

OWNER_ID == 0
Users == {OWNER_ID, 1}
Groups == {1, 2}

GroupChatTypes == {"group", "supergroup", "channel"}
ChatTypes == {"group", "supergroup", "channel", "private"}

\* what get_chat_member answers: a member status, or the call raising
MemberStatuses == {"creator", "administrator", "member"}
MemberResults == MemberStatuses \cup {"raise"}
AdminStatuses == {"creator", "administrator"}

is_owner(user_id) == user_id = OWNER_ID

check_admin_everyone(chatType, sender, member) ==
    IF chatType \notin GroupChatTypes
    THEN IF is_owner(sender) THEN "ok" ELSE "denied"
    ELSE IF is_owner(sender) THEN "ok"
    ELSE IF member = "raise" THEN "raise"
    ELSE "ok"

check_admin_query_error_ok(chatType, sender, member) ==
    IF chatType \notin GroupChatTypes
    THEN IF is_owner(sender) THEN "ok" ELSE "denied"
    ELSE IF is_owner(sender) THEN "ok"
    ELSE IF member = "raise" THEN "ok"
    ELSE IF member \in AdminStatuses THEN "ok"
    ELSE "denied"

check_admin_query_first(chatType, sender, member) ==
    IF member = "raise" THEN "raise"
    ELSE IF member \in AdminStatuses \/ is_owner(sender) THEN "ok"
    ELSE "denied"

\* check_admin: "ok" (True), "denied" (False, after a reply) or "raise"
\* (get_chat_member raised and the handler ends with the exception).
check_admin(chatType, sender, member) ==
    IF chatType \notin GroupChatTypes
    THEN IF is_owner(sender) THEN "ok" ELSE "denied"
    ELSE IF is_owner(sender) THEN "ok"
    ELSE IF member = "raise" THEN "raise"
    ELSE IF member \in AdminStatuses THEN "ok"
    ELSE "denied"

\* How the sender resolved, for the record in `last`.
Role(chatType, sender, member) ==
    IF is_owner(sender) THEN "Owner"
    ELSE IF chatType \notin GroupChatTypes THEN "NotGroup"
    ELSE IF member = "raise" THEN "QueryError"
    ELSE IF member \in AdminStatuses THEN "Admin"
    ELSE "Member"

\* Who sends an event and where: the sender, the kind of chat, and what
\* get_chat_member answers.  Where the code does not ask (the owner, a chat
\* that is no group) the answer is not drawn.
ActorsIn(chatTypes) ==
    {a \in [sender : Users, chatType : chatTypes, member : MemberResults] :
        (is_owner(a.sender) \/ a.chatType \notin GroupChatTypes) => a.member = "member"}
Actors == ActorsIn({"supergroup", "private"})

----------------------------------------------------------------------------
(* The store's documents as partial functions *)

Put_new_only(f, k, v) == [x \in (DOMAIN f) \cup {k} |-> IF x \in DOMAIN f THEN f[x] ELSE v]
Put(f, k, v) == [x \in (DOMAIN f) \cup {k} |-> IF x = k THEN v ELSE f[x]]
Del_all(f, k) == [x \in {} |-> 0]
Del(f, k) == [x \in (DOMAIN f) \ {k} |-> f[x]]
NoDocs == [x \in {} |-> 0]

\* ref.get().to_dict(): the fields of the document; exists = FALSE is None
to_dict(docs, k) ==
    IF k \in DOMAIN docs THEN [exists |-> TRUE, fields |-> docs[k]]
    ELSE [exists |-> FALSE, fields |-> NoDocs]

----------------------------------------------------------------------------
(* Warning ledger *)

BanThreshold == 3
MaxWarn == 4

\* The outcomes of the store calls one handler makes: rd[i] is whether its
\* i-th read succeeds, wr[i] whether its i-th write does.
StoreUp(nr, nw) == [rd |-> [i \in 1..nr |-> TRUE], wr |-> [i \in 1..nw |-> TRUE]]
StoreOutcomes(reliable, nr, nw) ==
    IF reliable THEN {StoreUp(nr, nw)}
    ELSE [rd : [1..nr -> BOOLEAN], wr : [1..nw -> BOOLEAN]]
AllOk(so) ==
    /\ \A i \in DOMAIN so.rd : so.rd[i]
    /\ \A i \in DOMAIN so.wr : so.wr[i]

get_warn_count(db, group_id, user_id, readOk) ==
    IF ~readOk THEN 0
    ELSE IF <<group_id, user_id>> \in DOMAIN db THEN db[<<group_id, user_id>>]
    ELSE 0

update_warn_count_noclamp(db, group_id, user_id, change, readOk, writeOk) ==
    LET current_warnings == get_warn_count(db, group_id, user_id, readOk)
        new_warnings == current_warnings + change
    IN  IF writeOk
        THEN [db |-> Put(db, <<group_id, user_id>>, new_warnings), ret |-> new_warnings]
        ELSE [db |-> db, ret |-> current_warnings]

update_warn_count(db, group_id, user_id, change, readOk, writeOk) ==
    LET current_warnings == get_warn_count(db, group_id, user_id, readOk)
        new_warnings == Max0(current_warnings + change)
    IN  IF writeOk
        THEN [db |-> Put(db, <<group_id, user_id>>, new_warnings), ret |-> new_warnings]
        ELSE [db |-> db, ret |-> current_warnings]

\* ghost: the run of warn events on a pair
NoRun == [n |-> 0, bans |-> 0]
RunWarn(r, pre, clean, bans) ==
    IF ~clean THEN NoRun
    ELSE IF pre = 0 THEN [n |-> 1, bans |-> bans]
    ELSE IF r.n \in 1..2 THEN [n |-> r.n + 1, bans |-> r.bans + bans]
    ELSE NoRun

Call(name, ok) == [call |-> name, ok |-> ok]
Reply(what) == [call |-> "reply_text", ok |-> TRUE, text |-> what]

WarnThresholdReached_above(new_warnings) == new_warnings > BanThreshold

WarnThresholdReached_exactly(new_warnings) == new_warnings = BanThreshold

\* `if new_warnings >= 3`
WarnThresholdReached(new_warnings) == new_warnings >= BanThreshold

WarnExempt_none(target) == FALSE

\* `if is_owner(target_user.id)`: the owner is not warned
WarnExempt(target) == is_owner(target)

\* warn_user.  target = -1 stands for a command that replies to no message.
warn_user(g, sender, chatType, member, target, banOk, so) ==
    LET auth == check_admin(chatType, sender, member)
        ev == [op |-> "warn", group |-> g, target |-> target,
               role |-> Role(chatType, sender, member), auth |-> auth]
        r1 == update_warn_count(warnings, g, target, 1, so.rd[1], so.wr[1])
        r2 == update_warn_count(r1.db, g, target, 0 - r1.ret, so.rd[2], so.wr[2])
        pre == get_warn_count(warnings, g, target, TRUE)
    IN  /\ UNCHANGED <<perms, filters, banned, rest>>
        /\ IF auth # "ok"
           THEN /\ UNCHANGED <<warnings, run>>
                /\ last' = ev @@
                           [calls |-> IF auth = "denied" THEN <<Reply("not admin")>> ELSE <<>>]
           ELSE IF target = -1
           THEN /\ UNCHANGED <<warnings, run>>
                /\ last' = ev @@ [calls |-> <<Reply("reply to a message")>>]
           ELSE IF WarnExempt(target)
           THEN /\ UNCHANGED <<warnings, run>>
                /\ last' = ev @@ [calls |-> <<Reply("cannot warn the owner")>>]
           ELSE IF WarnThresholdReached(r1.ret)
           THEN IF banOk
                THEN /\ warnings' = r2.db
                     /\ run' = [run EXCEPT ![<<g, target>>] =
                                  RunWarn(@, pre, AllOk(so), 1)]
                     /\ last' = ev @@ [calls |-> <<Call("ban_chat_member", TRUE),
                                                   Reply("banned")>>]
                ELSE /\ warnings' = r1.db
                     /\ run' = [run EXCEPT ![<<g, target>>] = NoRun]
                     /\ last' = ev @@ [calls |-> <<Call("ban_chat_member", FALSE),
                                                   Reply("could not ban")>>]
           ELSE /\ warnings' = r1.db
                /\ run' = [run EXCEPT ![<<g, target>>] =
                             RunWarn(@, pre, AllOk(so), 0)]
                /\ last' = ev @@ [calls |-> <<Reply("warned")>>]

\* remove_warn
remove_warn(g, sender, chatType, member, target, so) ==
    LET auth == check_admin(chatType, sender, member)
        ev == [op |-> "removewarn", group |-> g, target |-> target,
               role |-> Role(chatType, sender, member), auth |-> auth]
        current_warnings == get_warn_count(warnings, g, target, so.rd[1])
        r1 == update_warn_count(warnings, g, target, -1, so.rd[2], so.wr[1])
    IN  /\ UNCHANGED <<perms, filters, banned, rest>>
        /\ IF auth # "ok"
           THEN /\ UNCHANGED <<warnings, run>>
                /\ last' = ev @@
                           [calls |-> IF auth = "denied" THEN <<Reply("not admin")>> ELSE <<>>]
           ELSE IF target = -1
           THEN /\ UNCHANGED <<warnings, run>>
                /\ last' = ev @@ [calls |-> <<Reply("reply to a message")>>]
           ELSE IF current_warnings > 0
           THEN /\ warnings' = r1.db
                /\ run' = [run EXCEPT ![<<g, target>>] = NoRun]
                /\ last' = ev @@ [calls |-> <<Reply("warning removed")>>]
           ELSE /\ UNCHANGED warnings
                /\ run' = [run EXCEPT ![<<g, target>>] = NoRun]
                /\ last' = ev @@ [calls |-> <<Reply("no active warnings")>>]

\* warn_counts.  With no replied message the target is the sender.
warn_counts(g, sender, chatType, member, target, so) ==
    LET auth == check_admin(chatType, sender, member)
        target_user == IF target = -1 THEN sender ELSE target
        ev == [op |-> "warns", group |-> g, target |-> target_user,
               role |-> Role(chatType, sender, member), auth |-> auth]
        warns == get_warn_count(warnings, g, target_user, so.rd[1])
    IN  /\ UNCHANGED <<warnings, run, perms, filters, banned, rest>>
        /\ IF auth # "ok"
           THEN last' = ev @@
                        [calls |-> IF auth = "denied" THEN <<Reply("not admin")>> ELSE <<>>]
           ELSE last' = ev @@ [calls |-> <<Reply("warnings") @@ [count |-> warns]>>]

\* ban_user
ban_user(g, sender, chatType, member, target, banOk, so) ==
    LET auth == check_admin(chatType, sender, member)
        ev == [op |-> "ban", group |-> g, target |-> target,
               role |-> Role(chatType, sender, member), auth |-> auth]
        count == get_warn_count(warnings, g, target, so.rd[1])
        r1 == update_warn_count(warnings, g, target, 0 - count, so.rd[2], so.wr[1])
    IN  /\ UNCHANGED <<perms, filters, banned, rest>>
        /\ IF auth # "ok"
           THEN /\ UNCHANGED <<warnings, run>>
                /\ last' = ev @@
                           [calls |-> IF auth = "denied" THEN <<Reply("not admin")>> ELSE <<>>]
           ELSE IF target = -1
           THEN /\ UNCHANGED <<warnings, run>>
                /\ last' = ev @@ [calls |-> <<Reply("reply to a message")>>]
           ELSE IF banOk
           THEN /\ warnings' = r1.db
                /\ run' = [run EXCEPT ![<<g, target>>] = NoRun]
                /\ last' = ev @@ [calls |-> <<Call("ban_chat_member", TRUE),
                                              Reply("banned")>>]
           ELSE /\ UNCHANGED warnings
                /\ run' = [run EXCEPT ![<<g, target>>] = NoRun]
                /\ last' = ev @@ [calls |-> <<Call("ban_chat_member", FALSE),
                                              Reply("could not ban")>>]

Targets == Users \cup {-1}
WarnGroups == {1}

NoEvent == [op |-> "none", calls |-> <<>>]

\* the clock when the process starts: 31 December 2024, noon
StartTime == [year |-> 2024, month |-> 12, day |-> 31,
              hour |-> 12, minute |-> 0, second |-> 0, microsecond |-> 0]

InitStore ==
    /\ warnings = NoDocs
    /\ run = [p \in Groups \X Users |-> NoRun]
    /\ group_settings = NoDocs
    /\ broadcast_chats = NoDocs
    /\ now = StartTime
    /\ expiry = [g \in Groups |-> 0]
    /\ tasks = <<>>
    /\ last = NoEvent

WarnEvent(reliable) ==
    \E g \in WarnGroups, a \in Actors, target \in Targets, banOk \in BOOLEAN :
    \E so \in StoreOutcomes(reliable, 2, 2) :
        /\ target \in Users => get_warn_count(warnings, g, target, TRUE) < MaxWarn
        /\ warn_user(g, a.sender, a.chatType, a.member, target, banOk, so)

RemoveWarnEvent(reliable) ==
    \E g \in WarnGroups, a \in Actors, target \in Targets :
    \E so \in StoreOutcomes(reliable, 2, 1) :
        remove_warn(g, a.sender, a.chatType, a.member, target, so)

WarnsEvent(reliable) ==
    \E g \in WarnGroups, a \in Actors, target \in Targets :
    \E so \in StoreOutcomes(reliable, 1, 0) :
        warn_counts(g, a.sender, a.chatType, a.member, target, so)

BanEvent(reliable) ==
    \E g \in WarnGroups, a \in Actors, target \in Targets, banOk \in BOOLEAN :
    \E so \in StoreOutcomes(reliable, 2, 1) :
        ban_user(g, a.sender, a.chatType, a.member, target, banOk, so)

\* The warning commands; the store calls all succeed when `reliable`.
WarnCommands(reliable) ==
    \/ WarnEvent(reliable)
    \/ RemoveWarnEvent(reliable)
    \/ WarnsEvent(reliable)
    \/ BanEvent(reliable)

----------------------------------------------------------------------------
(* Permission lock controller *)

Caps == {"can_send_messages", "can_send_audios", "can_send_documents",
         "can_send_photos", "can_send_videos", "can_send_video_notes",
         "can_send_voice_notes", "can_send_polls", "can_send_other_messages",
         "can_add_web_page_previews"}

CapOrder == <<"can_send_messages", "can_send_audios", "can_send_documents",
              "can_send_photos", "can_send_videos", "can_send_video_notes",
              "can_send_voice_notes", "can_send_polls", "can_send_other_messages",
              "can_add_web_page_previews">>

\* A capability of the platform's ChatPermissions: True, False or None.
Tri == <<"True", "False", "None">>

F_all == <<"a","l","l">>
F_text == <<"t","e","x","t">>
F_stickers == <<"s","t","i","c","k","e","r","s">>
F_media == <<"m","e","d","i","a">>
F_images == <<"i","m","a","g","e","s">>
F_audio == <<"a","u","d","i","o">>

\* The dictionary new_perms starts as: every permission enabled.
DefaultPerms == [c \in Caps |-> TRUE]

\* `p if p is not None else True`
FoldCap(v) == IF v = "None" THEN TRUE ELSE v = "True"

Baseline_default(fetch, snapshot) == DefaultPerms

\* new_perms after the try block: the fetched permissions, folded, when
\* get_chat answered and chat.permissions is set; the default otherwise.
\* fetch is "ok", "none" (chat.permissions is None) or "raise".
Baseline(fetch, snapshot) ==
    IF fetch = "ok" THEN [c \in Caps |-> FoldCap(snapshot[c])] ELSE DefaultPerms

\* The keys the if/elif chain assigns target_value to; {} is the else branch.
FeatureCaps_media6 ==
    {"can_send_photos", "can_send_videos", "can_send_documents",
     "can_send_audios", "can_send_voice_notes", "can_send_video_notes"}

FeatureCaps_nomedia_other(feature_arg) ==
    IF feature_arg = F_all THEN Caps
    ELSE IF feature_arg = F_text THEN {"can_send_messages"}
    ELSE IF feature_arg = F_stickers THEN {"can_send_other_messages"}
    ELSE IF feature_arg = F_media THEN FeatureCaps_media6
    ELSE IF feature_arg = F_images THEN {"can_send_photos"}
    ELSE IF feature_arg = F_audio THEN {"can_send_audios", "can_send_voice_notes"}
    ELSE {}

FeatureCaps(feature_arg) ==
    IF feature_arg = F_all THEN Caps
    ELSE IF feature_arg = F_text THEN {"can_send_messages"}
    ELSE IF feature_arg = F_stickers THEN {"can_send_other_messages"}
    ELSE IF feature_arg = F_media
         THEN FeatureCaps_media6 \cup {"can_send_other_messages"}
    ELSE IF feature_arg = F_images THEN {"can_send_photos"}
    ELSE IF feature_arg = F_audio THEN {"can_send_audios", "can_send_voice_notes"}
    ELSE {}

ValidFeature_any(feature_arg) == TRUE

\* FALSE is the else branch of the if/elif chain: "Invalid feature"
ValidFeature(feature_arg) ==
    feature_arg \in {F_all, F_text, F_stickers, F_media, F_images, F_audio}

\* new_perms after the if/elif chain
ApplyFeature_overwrite(new_perms, feature_arg, target_value) ==
    [c \in Caps |-> IF c \in FeatureCaps(feature_arg) THEN target_value ELSE TRUE]

ApplyFeature(new_perms, feature_arg, target_value) ==
    [c \in Caps |-> IF c \in FeatureCaps(feature_arg) THEN target_value ELSE new_perms[c]]

\* ChatPermissions(**new_perms) as the platform stores it
AsPlatform(new_perms) == [c \in Caps |-> IF new_perms[c] THEN "True" ELSE "False"]

\* handle_lock_unlock.  args is context.args: <<>> or <<selector>>.
handle_lock_unlock(g, sender, chatType, member, args, lock, fetch, setOk) ==
    LET auth == check_admin(chatType, sender, member)
        ev == [op |-> "lock", group |-> g, target |-> -1, lock |-> lock, args |-> args,
               role |-> Role(chatType, sender, member), auth |-> auth,
               fetch |-> fetch, snapshot |-> perms[g]]
        feature_arg == Lower(args[1])
        target_value == ~lock
        new_perms == ApplyFeature(Baseline(fetch, perms[g]), feature_arg, target_value)
    IN  /\ UNCHANGED <<warnings, run, filters, banned, rest>>
        /\ IF auth # "ok"
           THEN /\ UNCHANGED perms
                /\ last' = ev @@
                           [calls |-> IF auth = "denied" THEN <<Reply("not admin")>> ELSE <<>>]
           ELSE IF args = <<>>
           THEN /\ UNCHANGED perms
                /\ last' = ev @@ [calls |-> <<Reply("usage")>>]
           ELSE IF ~ValidFeature(feature_arg)
           THEN /\ UNCHANGED perms
                /\ last' = ev @@ [calls |-> <<Reply("invalid feature")>>]
           ELSE /\ perms' = IF setOk THEN [perms EXCEPT ![g] = AsPlatform(new_perms)]
                            ELSE perms
                /\ last' = ev @@
                     [calls |-> <<Call("set_chat_permissions", setOk) @@
                                      [permissions |-> new_perms],
                                  Reply(IF setOk THEN "done" ELSE "could not update")>>]

lock_feature(g, sender, chatType, member, args, fetch, setOk) ==
    handle_lock_unlock(g, sender, chatType, member, args, TRUE, fetch, setOk)

unlock_feature(g, sender, chatType, member, args, fetch, setOk) ==
    handle_lock_unlock(g, sender, chatType, member, args, FALSE, fetch, setOk)

\* Permission sets a group can have when the first command arrives.
Rotated(k) == [c \in Caps |->
                 Tri[(((CHOOSE i \in 1..10 : CapOrder[i] = c) + k) % 3) + 1]]
Uniform(v) == [c \in Caps |-> v]
Snapshots == {Rotated(k) : k \in 0..2} \cup {Uniform(Tri[i]) : i \in 1..3}

\* The selectors the commands are given.
LockArgs == {<<F_all>>, <<F_text>>, <<F_stickers>>, <<F_media>>, <<F_images>>,
             <<F_audio>>, <<<<"A","L","L">>>>, <<<<"A","u","d","i","o">>>>,
             <<<<"v","i","d","e","o">>>>, <<>>}

LockGroups == {1}
LockActors == {a \in ActorsIn({"supergroup"}) : a.member # "creator"}
FetchResults == {"ok", "none", "raise"}

InitLock ==
    /\ InitStore
    /\ filters = [g \in Groups |-> NoDocs]
    /\ banned = [g \in Groups |-> NoDocs]
    /\ \E s \in Snapshots :
          perms = [g \in Groups |-> IF g \in LockGroups THEN s ELSE Uniform("None")]

\* A command is drawn while the group's permissions are one of Snapshots.
NextLock ==
    \E g \in LockGroups, a \in LockActors, args \in LockArgs,
       fetch \in FetchResults, setOk \in BOOLEAN :
      /\ perms[g] \in Snapshots
      /\
        \/ lock_feature(g, a.sender, a.chatType, a.member, args, fetch, setOk)
        \/ unlock_feature(g, a.sender, a.chatType, a.member, args, fetch, setOk)

SpecLock == InitLock /\ [][NextLock]_vars

----------------------------------------------------------------------------
(* The warning commands as a system *)

InitWarn ==
    /\ InitStore
    /\ perms = [g \in Groups |-> Uniform("None")]
    /\ filters = [g \in Groups |-> NoDocs]
    /\ banned = [g \in Groups |-> NoDocs]

\* every store call succeeds
NextWarn == WarnCommands(TRUE)

\* a store call may fail
NextWarnFaulty == WarnCommands(FALSE)

SpecWarn == InitWarn /\ [][NextWarn]_vars

SpecWarnFaulty == InitWarn /\ [][NextWarnFaulty]_vars

----------------------------------------------------------------------------
(* Content filters and banned words *)

\* The documents a stream() of a collection yields, in any order.
Orders(docs) ==
    {o \in [1..Cardinality(DOMAIN docs) -> DOMAIN docs] :
        \A i, j \in DOMAIN o : o[i] = o[j] => i = j}

\* The replied-to message of a /filter command: its text, sticker and photo
\* file ids (<<>> and "" when it has none); present = FALSE is no reply.
NoReplyMessage == [present |-> FALSE, text |-> <<>>, sticker |-> "", photo |-> ""]

filter_data_of(keyword, reply) ==
    IF reply.text # <<>>
    THEN [keyword |-> keyword, type |-> "text", content |-> reply.text, file_id |-> ""]
    ELSE IF reply.sticker # ""
    THEN [keyword |-> keyword, type |-> "sticker", content |-> <<>>, file_id |-> reply.sticker]
    ELSE [keyword |-> keyword, type |-> "photo", content |-> <<>>, file_id |-> reply.photo]

filter_doc_id_cased(keyword) == Strip(keyword)

\* the document id of a filter: keyword.lower().strip()
filter_doc_id(keyword) == Strip(Lower(keyword))

\* set_filter
set_filter(g, sender, chatType, member, reply, args, writeOk) ==
    LET auth == check_admin(chatType, sender, member)
        ev == [op |-> "filter", group |-> g, target |-> -1, args |-> args,
               role |-> Role(chatType, sender, member), auth |-> auth]
        keyword == args[1]
    IN  /\ UNCHANGED <<warnings, run, perms, banned, rest>>
        /\ IF auth # "ok"
           THEN /\ UNCHANGED filters
                /\ last' = ev @@
                           [calls |-> IF auth = "denied" THEN <<Reply("not admin")>> ELSE <<>>]
           ELSE IF ~reply.present
           THEN /\ UNCHANGED filters
                /\ last' = ev @@ [calls |-> <<Reply("reply to a message")>>]
           ELSE IF args = <<>>
           THEN /\ UNCHANGED filters
                /\ last' = ev @@ [calls |-> <<Reply("keyword needed")>>]
           ELSE IF reply.text = <<>> /\ reply.sticker = "" /\ reply.photo = ""
           THEN /\ UNCHANGED filters
                /\ last' = ev @@ [calls |-> <<Reply("unsupported")>>]
           ELSE IF writeOk
           THEN /\ filters' = [filters EXCEPT ![g] =
                                 Put(@, filter_doc_id(keyword), filter_data_of(keyword, reply))]
                /\ last' = ev @@ [calls |-> <<Reply("filter set")>>, reply |-> reply,
                                  before |-> to_dict(filters[g], filter_doc_id(keyword))]
           ELSE /\ UNCHANGED filters
                /\ last' = ev @@ [calls |-> <<Reply("database error")>>]

\* stop_filter
stop_filter(g, sender, chatType, member, args, storeOk) ==
    LET auth == check_admin(chatType, sender, member)
        ev == [op |-> "stop", group |-> g, target |-> -1, args |-> args,
               role |-> Role(chatType, sender, member), auth |-> auth]
        id == filter_doc_id(args[1])
    IN  /\ UNCHANGED <<warnings, run, perms, banned, rest>>
        /\ IF auth # "ok"
           THEN /\ UNCHANGED filters
                /\ last' = ev @@
                           [calls |-> IF auth = "denied" THEN <<Reply("not admin")>> ELSE <<>>]
           ELSE IF args = <<>>
           THEN /\ UNCHANGED filters
                /\ last' = ev @@ [calls |-> <<Reply("keyword needed")>>]
           ELSE IF ~storeOk
           THEN /\ UNCHANGED filters
                /\ last' = ev @@ [calls |-> <<Reply("database error")>>]
           ELSE IF id \in DOMAIN filters[g]
           THEN /\ filters' = [filters EXCEPT ![g] = Del(@, id)]
                /\ last' = ev @@ [calls |-> <<Reply("filter stopped")>>,
                                  before |-> to_dict(filters[g], id)]
           ELSE /\ UNCHANGED filters
                /\ last' = ev @@ [calls |-> <<Reply("not found")>>,
                                  before |-> to_dict(filters[g], id)]

\* The first document of the stream whose keyword, lower-cased, is in the
\* lower-cased message text: its id, or "" when no document matches.
KeywordMatches_cased(doc, message_text) ==
    doc.keyword # <<>> /\ Contains(message_text, doc.keyword)

KeywordMatches(doc, message_text) ==
    Lower(doc.keyword) # <<>> /\ Contains(message_text, Lower(doc.keyword))

first_filter(docs, order, message_text) ==
    LET hits == {i \in DOMAIN order : KeywordMatches(docs[order[i]], message_text)}
    IN  IF hits = {} THEN <<>>
        ELSE order[CHOOSE i \in hits : \A j \in hits : i <= j]

\* The platform calls of handle_filters: the reply with the stored content.
FilterCalls(docs, text, order, streamOk, replyOk) ==
    LET message_text == Lower(text)
        id == first_filter(docs, order, message_text)
        filter_data == docs[id]
    IN  IF text = <<>> \/ ~streamOk \/ id = <<>> THEN <<>>
        ELSE IF filter_data.type = "text" /\ filter_data.content # <<>>
        THEN <<[call |-> "reply_text", ok |-> replyOk, doc |-> id,
                content |-> filter_data.content, file_id |-> ""]>>
        ELSE IF filter_data.type = "sticker" /\ filter_data.file_id # ""
        THEN <<[call |-> "reply_sticker", ok |-> replyOk, doc |-> id,
                content |-> <<>>, file_id |-> filter_data.file_id]>>
        ELSE IF filter_data.type = "photo" /\ filter_data.file_id # ""
        THEN <<[call |-> "reply_photo", ok |-> replyOk, doc |-> id,
                content |-> <<>>, file_id |-> filter_data.file_id]>>
        ELSE <<>>

filters_collection_ref_first_group(db_filters, group_id) == db_filters[1]

\* db.collection("groups").document(str(group_id)).collection("filters")
filters_collection_ref(db_filters, group_id) == db_filters[group_id]

\* handle_filters
handle_filters(g, text, order, streamOk, replyOk) ==
    /\ UNCHANGED <<warnings, run, perms, filters, banned, rest>>
    /\ last' = [op |-> "handle_filters", group |-> g, target |-> -1, text |-> text,
                calls |-> FilterCalls(filters_collection_ref(filters, g), text, order,
                                      streamOk, replyOk)]

\* the document id of a banned word
banned_word_doc_id(word) == ReplaceSpace(Lower(Strip(word)))

\* ban_word
ban_word(g, sender, chatType, member, args, writeOk) ==
    LET auth == check_admin(chatType, sender, member)
        ev == [op |-> "ban_word", group |-> g, target |-> -1, args |-> args,
               role |-> Role(chatType, sender, member), auth |-> auth]
        word == Strip(Lower(args[1]))
    IN  /\ UNCHANGED <<warnings, run, perms, filters, rest>>
        /\ IF auth # "ok"
           THEN /\ UNCHANGED banned
                /\ last' = ev @@
                           [calls |-> IF auth = "denied" THEN <<Reply("not admin")>> ELSE <<>>]
           ELSE IF args = <<>>
           THEN /\ UNCHANGED banned
                /\ last' = ev @@ [calls |-> <<Reply("usage")>>]
           ELSE IF writeOk
           THEN /\ banned' = [banned EXCEPT ![g] = Put(@, banned_word_doc_id(word), word)]
                /\ last' = ev @@ [calls |-> <<Reply("word banned")>>]
           ELSE /\ UNCHANGED banned
                /\ last' = ev @@ [calls |-> <<Reply("database error")>>]

\* unban_word
unban_word(g, sender, chatType, member, args, storeOk) ==
    LET auth == check_admin(chatType, sender, member)
        ev == [op |-> "unban_word", group |-> g, target |-> -1, args |-> args,
               role |-> Role(chatType, sender, member), auth |-> auth]
        id == banned_word_doc_id(Strip(Lower(args[1])))
    IN  /\ UNCHANGED <<warnings, run, perms, filters, rest>>
        /\ IF auth # "ok"
           THEN /\ UNCHANGED banned
                /\ last' = ev @@
                           [calls |-> IF auth = "denied" THEN <<Reply("not admin")>> ELSE <<>>]
           ELSE IF args = <<>>
           THEN /\ UNCHANGED banned
                /\ last' = ev @@ [calls |-> <<Reply("usage")>>]
           ELSE IF ~storeOk
           THEN /\ UNCHANGED banned
                /\ last' = ev @@ [calls |-> <<Reply("database error")>>]
           ELSE IF id \in DOMAIN banned[g]
           THEN /\ banned' = [banned EXCEPT ![g] = Del(@, id)]
                /\ last' = ev @@ [calls |-> <<Reply("word unbanned")>>,
                                  before |-> to_dict(banned[g], id)]
           ELSE /\ UNCHANGED banned
                /\ last' = ev @@ [calls |-> <<Reply("not found")>>,
                                  before |-> to_dict(banned[g], id)]

is_user_admin_owner_only(chatType, sender, member) == is_owner(sender)

\* is_user_admin in handle_banned_words; a raising get_chat_member is caught
\* and the check goes on with is_user_admin = False.
is_user_admin(chatType, sender, member) ==
    IF is_owner(sender) THEN TRUE
    ELSE IF chatType \in GroupChatTypes
    THEN member # "raise" /\ member \in AdminStatuses
    ELSE FALSE

WordMatches(word, message_text) == word # <<>> /\ Contains(message_text, word)

first_banned(docs, order, message_text) ==
    LET hits == {i \in DOMAIN order : WordMatches(docs[order[i]], message_text)}
    IN  IF hits = {} THEN <<>>
        ELSE order[CHOOSE i \in hits : \A j \in hits : i <= j]

CensorCalls_notify_always(docs, sender, chatType, member, text, order, streamOk, deleteOk, sendOk) ==
    LET message_text == Lower(text)
        id == first_banned(docs, order, message_text)
    IN  IF text = <<>> \/ is_user_admin(chatType, sender, member) THEN <<>>
        ELSE IF ~streamOk \/ id = <<>> THEN <<>>
        ELSE <<[call |-> "delete_message", ok |-> deleteOk, doc |-> id, word |-> docs[id]],
               [call |-> "send_message", ok |-> sendOk, doc |-> id, word |-> docs[id]]>>

\* The platform calls of handle_banned_words: the deletion, then the notice.
CensorCalls(docs, sender, chatType, member, text, order, streamOk, deleteOk, sendOk) ==
    LET message_text == Lower(text)
        id == first_banned(docs, order, message_text)
    IN  IF text = <<>> \/ is_user_admin(chatType, sender, member) THEN <<>>
        ELSE IF ~streamOk \/ id = <<>> THEN <<>>
        ELSE IF deleteOk
        THEN <<[call |-> "delete_message", ok |-> TRUE, doc |-> id, word |-> docs[id]],
               [call |-> "send_message", ok |-> sendOk, doc |-> id, word |-> docs[id]]>>
        ELSE <<[call |-> "delete_message", ok |-> FALSE, doc |-> id, word |-> docs[id]]>>

\* db.collection("groups").document(str(group_id)).collection("banned_words")
banned_words_ref(db_banned, group_id) == db_banned[group_id]

\* handle_banned_words
handle_banned_words(g, sender, chatType, member, text, order, streamOk, deleteOk, sendOk) ==
    /\ UNCHANGED <<warnings, run, perms, filters, banned, rest>>
    /\ last' = [op |-> "handle_banned_words", group |-> g, target |-> -1, text |-> text,
                role |-> Role(chatType, sender, member),
                calls |-> CensorCalls(banned_words_ref(banned, g), sender, chatType, member,
                                      text, order, streamOk, deleteOk, sendOk)]

\* main: the two message handlers, both added with the default group 0 and
\* the filter TEXT & ~COMMAND, in this order.
MessageHandlers ==
    <<[group |-> 0, callback |-> "handle_filters"],
      [group |-> 0, callback |-> "handle_banned_words"]>>

\* Application.process_update: within one handler group the first handler
\* whose filter accepts the update handles it and the group's other handlers
\* are not used.  Both filters accept every text message that is no command.
Dispatched(handlers) ==
    {handlers[i].callback : i \in {k \in DOMAIN handlers :
        \A j \in 1..(k - 1) : handlers[j].group # handlers[k].group}}

\* A text message that is no command, through the handlers main registered.
process_update(g, sender, chatType, member, text, orderF, orderB, replyOk, deleteOk, sendOk) ==
    LET ran == Dispatched(MessageHandlers)
    IN  /\ UNCHANGED <<warnings, run, perms, filters, banned, rest>>
        /\ last' = [op |-> "text_update", group |-> g, target |-> -1, text |-> text,
                    role |-> Role(chatType, sender, member),
                    calls |->
                      (IF "handle_filters" \in ran
                       THEN FilterCalls(filters_collection_ref(filters, g), text, orderF,
                                        TRUE, replyOk)
                       ELSE <<>>) \o
                      (IF "handle_banned_words" \in ran
                       THEN CensorCalls(banned_words_ref(banned, g), sender, chatType, member,
                                        text, orderB, TRUE, deleteOk, sendOk)
                       ELSE <<>>)]

----------------------------------------------------------------------------
(* The inputs of the filter and banned-word systems *)

K_hello == <<"h","e","l","l","o">>
K_Hello == <<"H","e","l","l","o">>
K_ell == <<"e","l","l">>
W_spam == <<"s","p","a","m">>
W_SPAM == <<"S","P","A","M">>
W_now == <<"n","o","w">>

T_well_hello_there ==
    <<"w","e","l","l"," ","h","e","l","l","o"," ","t","h","e","r","e">>
T_goodbye == <<"g","o","o","d","b","y","e">>
T_get_rich_spamnow ==
    <<"g","e","t"," ","r","i","c","h"," ","s","p","a","m","n","o","w">>
T_SPAMNOW == <<"S","P","A","M","N","O","W">>
T_Hello_spam == <<"H","e","l","l","o"," ","s","p","a","m">>

FilterArgs == {<<>>, <<K_hello>>, <<K_Hello>>, <<K_ell>>}
WordArgs == {<<>>, <<W_spam>>, <<W_SPAM>>, <<W_now>>}
Texts == {T_well_hello_there, T_goodbye, T_get_rich_spamnow, T_SPAMNOW, T_Hello_spam}

ReplyMessages ==
    {NoReplyMessage,
     [present |-> TRUE, text |-> <<"h","i">>, sticker |-> "", photo |-> ""],
     [present |-> TRUE, text |-> <<>>, sticker |-> "S1", photo |-> ""],
     [present |-> TRUE, text |-> <<>>, sticker |-> "", photo |-> "P1"],
     [present |-> TRUE, text |-> <<>>, sticker |-> "", photo |-> ""]}

ChatGroups == {1}
CommandActors == LockActors

InitChat ==
    /\ InitStore
    /\ perms = [g \in Groups |-> Uniform("None")]
    /\ filters = [g \in Groups |-> NoDocs]
    /\ banned = [g \in Groups |-> NoDocs]

SetFilterEvent ==
    \E g \in ChatGroups, a \in CommandActors, reply \in ReplyMessages, args \in FilterArgs :
        set_filter(g, a.sender, a.chatType, a.member, reply, args, TRUE)

StopFilterEvent ==
    \E g \in ChatGroups, a \in CommandActors, args \in FilterArgs :
        stop_filter(g, a.sender, a.chatType, a.member, args, TRUE)

HandleFiltersEvent ==
    \E g \in ChatGroups, text \in Texts, replyOk \in BOOLEAN :
    \E order \in Orders(filters[g]) :
        handle_filters(g, text, order, TRUE, replyOk)

BanWordEvent ==
    \E g \in ChatGroups, a \in CommandActors, args \in WordArgs :
        ban_word(g, a.sender, a.chatType, a.member, args, TRUE)

UnbanWordEvent ==
    \E g \in ChatGroups, a \in CommandActors, args \in WordArgs :
        unban_word(g, a.sender, a.chatType, a.member, args, TRUE)

HandleBannedWordsEvent ==
    \E g \in ChatGroups, a \in Actors, text \in Texts,
       deleteOk \in BOOLEAN, sendOk \in BOOLEAN :
    \E order \in Orders(banned[g]) :
        handle_banned_words(g, a.sender, a.chatType, a.member, text, order,
                            TRUE, deleteOk, sendOk)

\* platformOk: whether the chat platform carries out the calls of this update
TextUpdateEvent ==
    \E g \in ChatGroups, a \in CommandActors, text \in Texts, platformOk \in BOOLEAN :
    \E orderF \in Orders(filters[g]), orderB \in Orders(banned[g]) :
        process_update(g, a.sender, a.chatType, a.member, text, orderF, orderB,
                       platformOk, platformOk, platformOk)

\* The filter commands and the filter handler called on each text message.
NextFilter == SetFilterEvent \/ StopFilterEvent \/ HandleFiltersEvent
SpecFilter == InitChat /\ [][NextFilter]_vars

\* The banned-word commands and the censor called on each text message.
NextCensor == BanWordEvent \/ UnbanWordEvent \/ HandleBannedWordsEvent
SpecCensor == InitChat /\ [][NextCensor]_vars

\* The commands that write the filters and the banned words.
RemoveActors == {a \in CommandActors : a.member = "member"}

NextRemove ==
    \/ \E a \in RemoveActors, args \in FilterArgs,
          reply \in {r \in ReplyMessages : r.text # <<>> \/ r.sticker # ""} :
          set_filter(1, a.sender, a.chatType, a.member, reply, args, TRUE)
    \/ \E a \in RemoveActors, args \in FilterArgs :
          stop_filter(1, a.sender, a.chatType, a.member, args, TRUE)
    \/ \E a \in RemoveActors, args \in WordArgs :
          ban_word(1, a.sender, a.chatType, a.member, args, TRUE)
    \/ \E a \in RemoveActors, args \in WordArgs :
          unban_word(1, a.sender, a.chatType, a.member, args, TRUE)
SpecRemove == InitChat /\ [][NextRemove]_vars

\* The commands and the text messages as the Application dispatches them.
NextDispatch ==
    \/ \E g \in ChatGroups, args \in {<<K_hello>>, <<K_ell>>},
          reply \in {r \in ReplyMessages : r.text # <<>> \/ r.sticker # ""} :
          set_filter(g, OWNER_ID, "supergroup", "member", reply, args, TRUE)
    \/ \E g \in ChatGroups, args \in {<<K_hello>>, <<K_ell>>} :
          stop_filter(g, OWNER_ID, "supergroup", "member", args, TRUE)
    \/ BanWordEvent
    \/ UnbanWordEvent
    \/ TextUpdateEvent
SpecDispatch == InitChat /\ [][NextDispatch]_vars

----------------------------------------------------------------------------
(* Dates and durations *)

Digits == <<"0","1","2","3","4","5","6","7","8","9">>
IsDigits(s) == s # <<>> /\ \A i \in 1..Len(s) : \E d \in 1..10 : Digits[d] = s[i]
DigitVal(c) == (CHOOSE d \in 1..10 : Digits[d] = c) - 1

RECURSIVE ParseInt(_)
\* int() of a string of digits
ParseInt(s) ==
    IF s = <<>> THEN 0
    ELSE 10 * ParseInt(SubSeq(s, 1, Len(s) - 1)) + DigitVal(s[Len(s)])

RECURSIVE Split(_, _)
\* str.split(sep) with a one-character separator
Split(s, sep) ==
    LET at == {i \in 1..Len(s) : s[i] = sep}
    IN  IF at = {} THEN <<s>>
        ELSE LET i == CHOOSE k \in at : \A j \in at : k <= j
             IN  <<SubSeq(s, 1, i - 1)>> \o Split(SubSeq(s, i + 1, Len(s)), sep)

RECURSIVE Join(_)
\* " ".join(words)
Join(words) ==
    IF words = <<>> THEN <<>>
    ELSE IF Len(words) = 1 THEN words[1]
    ELSE words[1] \o <<" ">> \o Join(Tail(words))

IsLeap(y) == (y % 4 = 0 /\ y % 100 # 0) \/ y % 400 = 0
DaysInMonth(y, m) ==
    IF m = 2 THEN (IF IsLeap(y) THEN 29 ELSE 28)
    ELSE IF m \in {4, 6, 9, 11} THEN 30 ELSE 31

RECURSIVE DaysBeforeMonth(_, _)
DaysBeforeMonth(y, m) ==
    IF m = 1 THEN 0 ELSE DaysBeforeMonth(y, m - 1) + DaysInMonth(y, m - 1)

\* date.toordinal(): the days since 31 December of the year 0
toordinal(dt) ==
    LET y == dt.year - 1
    IN  y * 365 + (y \div 4) - (y \div 100) + (y \div 400)
          + DaysBeforeMonth(dt.year, dt.month) + dt.day

SecondsPerDay == 86400
MicrosPerSecond == 1000000
SecondOfDay(dt) == dt.hour * 3600 + dt.minute * 60 + dt.second

\* Whether datetime.strptime(date_str, "%d/%m/%Y") accepts the string; it
\* raises ValueError otherwise.  The day and the month are one or two digits
\* and no zero, the year is four digits, and the day is one the month has.
ValidDate(date_str) ==
    LET parts == Split(date_str, "/")
    IN  /\ Len(parts) = 3
        /\ IsDigits(parts[1]) /\ Len(parts[1]) \in {1, 2}
        /\ IsDigits(parts[2]) /\ Len(parts[2]) \in {1, 2}
        /\ IsDigits(parts[3]) /\ Len(parts[3]) = 4
        /\ ParseInt(parts[3]) >= 1
        /\ ParseInt(parts[2]) \in 1..12
        /\ ParseInt(parts[1]) >= 1
        /\ ParseInt(parts[1]) <= DaysInMonth(ParseInt(parts[3]), ParseInt(parts[2]))

\* datetime.strptime(date_str, "%d/%m/%Y").replace(tzinfo=timezone.utc):
\* midnight of the day
strptime(date_str) ==
    LET parts == Split(date_str, "/")
    IN  [year |-> ParseInt(parts[3]), month |-> ParseInt(parts[2]),
         day |-> ParseInt(parts[1]),
         hour |-> 0, minute |-> 0, second |-> 0, microsecond |-> 0]

\* datetime.isoformat() of a datetime in UTC with no microseconds: the fields
\* of "YYYY-MM-DDTHH:MM:SS+00:00"
isoformat(dt) ==
    [date |-> <<dt.year, dt.month, dt.day>>,
     time |-> <<dt.hour, dt.minute, dt.second>>,
     offset |-> <<0, 0>>]

\* datetime.fromisoformat(s).replace(tzinfo=timezone.utc)
fromisoformat(iso) ==
    [year |-> iso.date[1], month |-> iso.date[2], day |-> iso.date[3],
     hour |-> iso.time[1], minute |-> iso.time[2], second |-> iso.time[3],
     microsecond |-> 0]

DateBefore_never(a, b) == FALSE

\* a < b on datetimes of the same time zone
DateBefore(a, b) ==
    \/ toordinal(a) < toordinal(b)
    \/ /\ toordinal(a) = toordinal(b)
       /\ \/ SecondOfDay(a) < SecondOfDay(b)
          \/ SecondOfDay(a) = SecondOfDay(b) /\ a.microsecond < b.microsecond

\* a - b: a timedelta, normalised so that 0 <= seconds < 86400 and
\* 0 <= microseconds < 1000000 (days carries the sign)
DateDiff(a, b) ==
    LET us == a.microsecond - b.microsecond
        sec == SecondOfDay(a) - SecondOfDay(b) + (us \div MicrosPerSecond)
        days == toordinal(a) - toordinal(b) + (sec \div SecondsPerDay)
    IN  [days |-> days, seconds |-> sec % SecondsPerDay,
         microseconds |-> us % MicrosPerSecond]

\* timedelta.total_seconds() <= 0
NotPositive(td) ==
    td.days < 0 \/ (td.days = 0 /\ td.seconds = 0 /\ td.microseconds = 0)

\* the four numbers check_countdown shows
TimeParts_minutes_of_day(remaining_time) ==
    [days |-> remaining_time.days,
     hours |-> remaining_time.seconds \div 3600,
     minutes |-> remaining_time.seconds \div 60,
     seconds |-> remaining_time.seconds % 60]

TimeParts(remaining_time) ==
    [days |-> remaining_time.days,
     hours |-> remaining_time.seconds \div 3600,
     minutes |-> (remaining_time.seconds % 3600) \div 60,
     seconds |-> remaining_time.seconds % 60]

----------------------------------------------------------------------------
(* Countdown tracker *)

CountdownFields == {"countdown_name", "target_date_iso", "target_date_human"}

Merge_missing_only(docs, k, fields) ==
    Put(docs, k,
        IF k \in DOMAIN docs
        THEN [f \in (DOMAIN docs[k]) \cup (DOMAIN fields) |->
                 IF f \in DOMAIN docs[k] THEN docs[k][f] ELSE fields[f]]
        ELSE fields)

\* set(fields, merge=True) on a document that may not exist
Merge(docs, k, fields) ==
    Put(docs, k,
        IF k \in DOMAIN docs
        THEN [f \in (DOMAIN docs[k]) \cup (DOMAIN fields) |->
                 IF f \in DOMAIN fields THEN fields[f] ELSE docs[k][f]]
        ELSE fields)

DeleteFields_keep(docs, k, fields) == docs

\* update() with DELETE_FIELD for each of the fields
DeleteFields(docs, k, fields) ==
    Put(docs, k, [f \in (DOMAIN docs[k]) \ fields |-> docs[k][f]])

\* `not doc or "target_date_iso" not in doc`
NoCountdown(doc) ==
    ~doc.exists \/ DOMAIN doc.fields = {} \/ "target_date_iso" \notin DOMAIN doc.fields

\* set_countdown.  args[1] is the date, the other words are the name.
set_countdown(g, sender, chatType, member, args, writeOk) ==
    LET auth == check_admin(chatType, sender, member)
        ev == [op |-> "set_countdown", group |-> g, target |-> -1, args |-> args,
               role |-> Role(chatType, sender, member), auth |-> auth,
               at |-> now, before |-> to_dict(group_settings, g)]
        date_str == args[1]
        countdown_name == Join(Tail(args))
        target_date == strptime(date_str)
    IN  /\ UNCHANGED <<warnings, run, perms, filters, banned, broadcast_chats, now, tasks>>
        /\ IF auth # "ok"
           THEN /\ UNCHANGED <<group_settings, expiry>>
                /\ last' = ev @@
                           [calls |-> IF auth = "denied" THEN <<Reply("not admin")>> ELSE <<>>]
           ELSE IF Len(args) < 2
           THEN /\ UNCHANGED <<group_settings, expiry>>
                /\ last' = ev @@ [calls |-> <<Reply("usage")>>]
           ELSE IF ~ValidDate(date_str)
           THEN /\ UNCHANGED <<group_settings, expiry>>
                /\ last' = ev @@ [calls |-> <<Reply("invalid date format")>>]
           ELSE IF DateBefore(target_date, now)
           THEN /\ UNCHANGED <<group_settings, expiry>>
                /\ last' = ev @@ [calls |-> <<Reply("must be in the future")>>]
           ELSE IF writeOk
           THEN /\ group_settings' =
                       Merge(group_settings, g,
                             [countdown_name |-> countdown_name,
                              target_date_iso |-> isoformat(target_date),
                              target_date_human |-> date_str])
                /\ expiry' = [expiry EXCEPT ![g] = 0]
                /\ last' = ev @@ [calls |-> <<Reply("countdown set")>>]
           ELSE /\ UNCHANGED <<group_settings, expiry>>
                /\ last' = ev @@ [calls |-> <<Reply("unexpected error")>>]

\* check_countdown
check_countdown(g, readOk, updateOk) ==
    LET doc == to_dict(group_settings, g)
        ev == [op |-> "check_countdown", group |-> g, target |-> -1,
               at |-> now, before |-> doc]
        target_date == fromisoformat(doc.fields["target_date_iso"])
        remaining_time == DateDiff(target_date, now)
    IN  /\ UNCHANGED <<warnings, run, perms, filters, banned, broadcast_chats, now, tasks>>
        /\ IF ~readOk
           THEN /\ UNCHANGED <<group_settings, expiry>>
                /\ last' = ev @@ [calls |-> <<Reply("error")>>]
           ELSE IF NoCountdown(doc)
           THEN /\ UNCHANGED <<group_settings, expiry>>
                /\ last' = ev @@ [calls |-> <<Reply("no active countdown")>>]
           ELSE IF NotPositive(remaining_time)
           THEN IF updateOk
                THEN /\ group_settings' = DeleteFields(group_settings, g, CountdownFields)
                     /\ expiry' = [expiry EXCEPT ![g] = @ + 1]
                     /\ last' = ev @@
                          [calls |-> <<Reply("is here") @@
                                         [name |-> doc.fields["countdown_name"]]>>]
                ELSE /\ UNCHANGED <<group_settings, expiry>>
                     /\ last' = ev @@ [calls |-> <<Reply("error")>>]
           ELSE /\ UNCHANGED <<group_settings, expiry>>
                /\ last' = ev @@
                     [calls |-> <<Reply("time remaining") @@
                                    [name |-> doc.fields["countdown_name"],
                                     human |-> doc.fields["target_date_human"],
                                     parts |-> TimeParts(remaining_time)]>>]

\* The clock: the instants at which an event can arrive, in order.
At(d, mo, y, h, mi, sec, us) ==
    [year |-> y, month |-> mo, day |-> d,
     hour |-> h, minute |-> mi, second |-> sec, microsecond |-> us]

ClockReads ==
    <<StartTime,
      At(31, 12, 2024, 23, 59, 59, 999999),
      At(1, 1, 2025, 0, 0, 0, 0),
      At(1, 1, 2025, 0, 0, 0, 1),
      At(1, 1, 2025, 10, 20, 30, 500000),
      At(2, 1, 2025, 23, 59, 59, 999999),
      At(3, 1, 2025, 0, 0, 0, 0),
      At(3, 1, 2025, 0, 0, 1, 0)>>

\* time passes between two events
Tick == \E i \in 1..(Len(ClockReads) - 1) : now = ClockReads[i] /\ now' = ClockReads[i + 1]

PassTime ==
    /\ Tick
    /\ UNCHANGED <<warnings, run, perms, filters, banned, group_settings,
                   broadcast_chats, expiry, tasks, last>>

D_30_12_2024 == <<"3","0","/","1","2","/","2","0","2","4">>
D_01_01_2025 == <<"0","1","/","0","1","/","2","0","2","5">>
D_1_1_2025 == <<"1","/","1","/","2","0","2","5">>
D_03_01_2025 == <<"0","3","/","0","1","/","2","0","2","5">>
D_31_02_2025 == <<"3","1","/","0","2","/","2","0","2","5">>
D_soon == <<"s","o","o","n">>
N_Launch == <<"L","a","u","n","c","h">>
N_New == <<"N","e","w">>
N_Year == <<"Y","e","a","r">>

CountdownArgs ==
    {<<>>, <<D_01_01_2025>>,
     <<D_30_12_2024, N_Launch>>, <<D_01_01_2025, N_Launch>>, <<D_1_1_2025, N_New, N_Year>>,
     <<D_03_01_2025, N_Launch>>, <<D_03_01_2025, N_New, N_Year>>,
     <<D_31_02_2025, N_Launch>>, <<D_soon, N_Launch>>}

CountdownGroups == {1}

SetCountdownEvent ==
    \E g \in CountdownGroups, a \in CommandActors, args \in CountdownArgs :
        set_countdown(g, a.sender, a.chatType, a.member, args, TRUE)

CheckCountdownEvent ==
    \E g \in CountdownGroups : check_countdown(g, TRUE, TRUE)

\* The countdown commands and the clock.
NextCountdown == SetCountdownEvent \/ CheckCountdownEvent \/ PassTime
SpecCountdown == InitChat /\ [][NextCountdown]_vars

\* A countdown to 3 January 2025 is running and a status request can arrive
\* at each hour, minute, second and microsecond of the days before it.
DurationDays == {<<31, 12, 2024>>, <<1, 1, 2025>>, <<2, 1, 2025>>}
DurationClock ==
    {At(d[1], d[2], d[3], h, mi, sec, us) :
        d \in DurationDays, h \in {0, 1, 23}, mi \in {0, 1, 59},
        sec \in {0, 59}, us \in {0, 1, 999999}}

InitDuration ==
    /\ warnings = NoDocs
    /\ run = [p \in Groups \X Users |-> NoRun]
    /\ perms = [g \in Groups |-> Uniform("None")]
    /\ filters = [g \in Groups |-> NoDocs]
    /\ banned = [g \in Groups |-> NoDocs]
    /\ broadcast_chats = NoDocs
    /\ expiry = [g \in Groups |-> 0]
    /\ tasks = <<>>
    /\ last = NoEvent
    /\ group_settings =
          Merge(NoDocs, 1,
                [countdown_name |-> N_Launch,
                 target_date_iso |-> isoformat(strptime(D_03_01_2025)),
                 target_date_human |-> D_03_01_2025])
    /\ now \in DurationClock

NextDuration == CheckCountdownEvent
SpecDuration == InitDuration /\ [][NextDuration]_vars

----------------------------------------------------------------------------
(* Broadcast fan-out *)

RECURSIVE Str(_)
\* str(n) of an integer
Str(n) ==
    IF n < 0 THEN <<"-">> \o Str(0 - n)
    ELSE IF n < 10 THEN <<Digits[n + 1]>>
    ELSE Str(n \div 10) \o <<Digits[(n % 10) + 1]>>

RECURSIVE Words(_)
\* str.split() with no separator: the runs of characters that are no whitespace
Words(s) ==
    LET keep == {i \in 1..Len(s) : s[i] \notin Whitespace}
    IN  IF keep = {} THEN <<>>
        ELSE LET lo == CHOOSE i \in keep : \A j \in keep : i <= j
                 ends == {i \in lo..Len(s) : i = Len(s) \/ s[i + 1] \in Whitespace}
                 hi == CHOOSE i \in ends : \A j \in ends : i <= j
             IN  <<SubSeq(s, lo, hi)>> \o Words(SubSeq(s, hi + 1, Len(s)))

\* str.split(" ", 1): the text cut at its first space, or the text alone
SplitOnce(s) ==
    LET at == {i \in 1..Len(s) : s[i] = " "}
    IN  IF at = {} THEN <<s>>
        ELSE LET i == CHOOSE k \in at : \A j \in at : k <= j
             IN  <<SubSeq(s, 1, i - 1), SubSeq(s, i + 1, Len(s))>>

\* context.args of a command message: message.text.split()[1:]
CommandArgs(text) == Tail(Words(text))

\* The chats the bot is in.  A chat is its id, its kind and its title.
Chat(id, type, title) == [id |-> id, type |-> type, title |-> title]
Chats ==
    {Chat(1, "supergroup", "Club"), Chat(2, "group", "Team"),
     Chat(3, "channel", "News"), Chat(10, "private", "Ann")}

\* start_command: the welcome, and the chat entered in broadcast_chats
start_command(chat, writeOk) ==
    LET chat_id == Str(chat.id)
        chat_data == [chat_id |-> chat_id, chat_type |-> chat.type,
                      title |-> chat.title, last_active |-> now]
        tracked == chat.type \in {"group", "supergroup", "private"} /\ writeOk
    IN  /\ UNCHANGED <<warnings, run, perms, filters, banned, group_settings, now, expiry,
                       tasks>>
        /\ broadcast_chats' = IF tracked THEN Merge(broadcast_chats, chat_id, chat_data)
                              ELSE broadcast_chats
        /\ last' = [op |-> "start", group |-> chat.id, target |-> -1,
                    calls |-> <<Reply("welcome")>>]

BroadcastAllowed_admins(sender, chatType, member) ==
    check_admin(chatType, sender, member) = "ok"

\* `if not is_owner(update.effective_user.id)`: the owner alone may broadcast
BroadcastAllowed(sender, chatType, member) == is_owner(sender)

Fanout_all(docs, order, source_chat_id, message_to_send, sendOk) ==
    [i \in DOMAIN order |->
        [call |-> "send_message", ok |-> sendOk[docs[order[i]].chat_id],
         chat_id |-> docs[order[i]].chat_id, text |-> message_to_send]]

RECURSIVE Fanout(_, _, _, _, _)
\* The for loop over the streamed documents: the send_message calls, in order.
Fanout(docs, order, source_chat_id, message_to_send, sendOk) ==
    IF order = <<>> THEN <<>>
    ELSE LET chat_id == docs[Head(order)].chat_id
             further == Fanout(docs, Tail(order), source_chat_id, message_to_send, sendOk)
         IN  IF chat_id = <<>> \/ chat_id = source_chat_id THEN further
             ELSE <<[call |-> "send_message", ok |-> sendOk[chat_id],
                     chat_id |-> chat_id, text |-> message_to_send]>> \o further

\* broadcast_message.  A text with no space after the command makes
\* `update.message.text.split(" ", 1)[1]` raise IndexError outside every try
\* block: the handler ends there.
broadcast_message(chat, sender, member, text, order, streamOk, sendOk) ==
    LET ev == [op |-> "broadcast", group |-> chat.id, target |-> -1, text |-> text,
               role |-> Role(chat.type, sender, member)]
        args == CommandArgs(text)
        pieces == SplitOnce(text)
        message_to_send == pieces[2]
        source_chat_id == Str(chat.id)
        sends == Fanout(broadcast_chats, order, source_chat_id, message_to_send, sendOk)
        sent_count == Cardinality({i \in DOMAIN sends : sends[i].ok})
        failed_count == Cardinality({i \in DOMAIN sends : ~sends[i].ok})
    IN  /\ UNCHANGED <<warnings, run, perms, filters, banned, group_settings,
                       broadcast_chats, now, expiry, tasks>>
        /\ IF ~BroadcastAllowed(sender, chat.type, member)
           THEN last' = ev @@ [streamed |-> FALSE, raised |-> FALSE,
                               calls |-> <<Reply("restricted to the owner")>>]
           ELSE IF Len(args) < 1
           THEN last' = ev @@ [streamed |-> FALSE, raised |-> FALSE,
                               calls |-> <<Reply("usage")>>]
           ELSE IF Len(pieces) < 2
           THEN last' = ev @@ [streamed |-> FALSE, raised |-> TRUE, calls |-> <<>>]
           ELSE IF ~streamOk
           THEN last' = ev @@ [streamed |-> TRUE, raised |-> FALSE,
                               calls |-> <<Reply("database error")>>]
           ELSE last' = ev @@
                  [streamed |-> TRUE, raised |-> FALSE,
                   calls |-> sends \o
                       <<Reply("broadcast complete") @@
                           [sent_count |-> sent_count, failed_count |-> failed_count]>>]

T_broadcast == <<"/","b","r","o","a","d","c","a","s","t">>
T_broadcast_hi == T_broadcast \o <<" ","h","i">>
T_broadcast_hi_all == T_broadcast \o <<" ","h","i"," ","a","l","l">>
T_broadcast_newline_hi == T_broadcast \o <<"\n","h","i">>
BroadcastTexts == {T_broadcast, T_broadcast_hi, T_broadcast_hi_all, T_broadcast_newline_hi}

\* Who sends /broadcast, and what get_chat_member would answer about them.
BroadcastActors == CommandActors

StartEvent == \E chat \in Chats : start_command(chat, TRUE)

BroadcastEvent ==
    \E chat \in Chats, a \in BroadcastActors, text \in BroadcastTexts :
    \E order \in Orders(broadcast_chats), sendOk \in [DOMAIN broadcast_chats -> BOOLEAN] :
        broadcast_message(chat, a.sender, a.member, text, order, TRUE, sendOk)

\* The chats that start the bot and the broadcasts.
NextBroadcast == StartEvent \/ BroadcastEvent
SpecBroadcast == InitChat /\ [][NextBroadcast]_vars

----------------------------------------------------------------------------
(* Member commands: unban, mute, unmute, promote *)

\* what check_admin was given and what it answered, for the record in `last`
Asked(sender, chatType, member) ==
    [sender |-> sender, chatType |-> chatType, member |-> member,
     role |-> Role(chatType, sender, member),
     auth |-> check_admin(chatType, sender, member)]

\* unban_user.  args[1] is the user id, in digits.
unban_user(g, sender, chatType, member, args, unbanOk) ==
    LET ev == [op |-> "unban", group |-> g, target |-> -1, args |-> args]
               @@ Asked(sender, chatType, member)
    IN  /\ UNCHANGED <<warnings, run, perms, filters, banned, rest>>
        /\ IF ev.auth # "ok"
           THEN last' = ev @@
                        [calls |-> IF ev.auth = "denied" THEN <<Reply("not admin")>> ELSE <<>>]
           ELSE IF args = <<>> \/ ~IsDigits(args[1])
           THEN last' = ev @@ [calls |-> <<Reply("usage")>>]
           ELSE last' = ev @@
                  [calls |-> <<Call("unban_chat_member", unbanOk) @@
                                   [user_id |-> ParseInt(args[1])],
                               Reply(IF unbanOk THEN "unbanned" ELSE "could not unban")>>]

\* the mute of one hour a /mute with no number of minutes gives
DefaultMuteSeconds == 3600

\* mute_user.  The mute lasts args[1] minutes when that is digits.
mute_user(g, sender, chatType, member, target, args, restrictOk) ==
    LET ev == [op |-> "mute", group |-> g, target |-> target, args |-> args]
               @@ Asked(sender, chatType, member)
        mute_seconds == IF args # <<>> /\ IsDigits(args[1])
                        THEN ParseInt(args[1]) * 60 ELSE DefaultMuteSeconds
    IN  /\ UNCHANGED <<warnings, run, perms, filters, banned, rest>>
        /\ IF ev.auth # "ok"
           THEN last' = ev @@
                        [calls |-> IF ev.auth = "denied" THEN <<Reply("not admin")>> ELSE <<>>]
           ELSE IF target = -1
           THEN last' = ev @@ [calls |-> <<Reply("reply to a message")>>]
           ELSE last' = ev @@
                  [calls |-> <<Call("restrict_chat_member", restrictOk) @@
                                   [user_id |-> target,
                                    permissions |-> [can_send_messages |-> FALSE],
                                    until_date |-> [from |-> now, seconds |-> mute_seconds]],
                               Reply(IF restrictOk THEN "muted" ELSE "could not mute")>>]

\* unmute_user
unmute_user(g, sender, chatType, member, target, restrictOk) ==
    LET ev == [op |-> "unmute", group |-> g, target |-> target]
               @@ Asked(sender, chatType, member)
    IN  /\ UNCHANGED <<warnings, run, perms, filters, banned, rest>>
        /\ IF ev.auth # "ok"
           THEN last' = ev @@
                        [calls |-> IF ev.auth = "denied" THEN <<Reply("not admin")>> ELSE <<>>]
           ELSE IF target = -1
           THEN last' = ev @@ [calls |-> <<Reply("reply to a message")>>]
           ELSE last' = ev @@
                  [calls |-> <<Call("restrict_chat_member", restrictOk) @@
                                   [user_id |-> target, permissions |-> DefaultPerms],
                               Reply(IF restrictOk THEN "unmuted" ELSE "could not unmute")>>]

\* the rights promote_user grants and withholds
PromoteRights ==
    [can_manage_chat |-> TRUE, can_delete_messages |-> TRUE,
     can_restrict_members |-> TRUE, can_pin_messages |-> TRUE,
     can_promote_members |-> FALSE, can_change_info |-> FALSE]

\* promote_user
promote_user(g, sender, chatType, member, target, promoteOk) ==
    LET ev == [op |-> "promote", group |-> g, target |-> target]
               @@ Asked(sender, chatType, member)
    IN  /\ UNCHANGED <<warnings, run, perms, filters, banned, rest>>
        /\ IF ev.auth # "ok"
           THEN last' = ev @@
                        [calls |-> IF ev.auth = "denied" THEN <<Reply("not admin")>> ELSE <<>>]
           ELSE IF target = -1
           THEN last' = ev @@ [calls |-> <<Reply("reply to a message")>>]
           ELSE last' = ev @@
                  [calls |-> <<Call("promote_chat_member", promoteOk) @@
                                   [user_id |-> target, rights |-> PromoteRights],
                               Reply(IF promoteOk THEN "promoted" ELSE "could not promote")>>]

A_1 == <<"1">>
A_45 == <<"4","5">>
A_x == <<"x">>
UnbanArgs == {<<>>, <<A_1>>, <<A_x>>}
MuteArgs == {<<>>, <<A_45>>}

\* whom a member command is about: user 1, or no replied message
AuthTargets == {1, -1}

\* The four commands, sent by any of `actors`, the platform answering with
\* any of `outcomes`.
MemberCommands(actors, outcomes) ==
    \/ \E g \in ChatGroups, a \in actors, args \in UnbanArgs, ok \in outcomes :
          unban_user(g, a.sender, a.chatType, a.member, args, ok)
    \/ \E g \in ChatGroups, a \in actors, target \in AuthTargets, args \in MuteArgs,
          ok \in outcomes :
          mute_user(g, a.sender, a.chatType, a.member, target, args, ok)
    \/ \E g \in ChatGroups, a \in actors, target \in AuthTargets, ok \in outcomes :
          unmute_user(g, a.sender, a.chatType, a.member, target, ok)
    \/ \E g \in ChatGroups, a \in actors, target \in AuthTargets, ok \in outcomes :
          promote_user(g, a.sender, a.chatType, a.member, target, ok)

\* Every sender, in every kind of chat, with every answer of get_chat_member.
AllActors == [sender : Users, chatType : ChatTypes, member : MemberResults]

NextPrivilege == MemberCommands(AllActors, BOOLEAN)
SpecPrivilege == InitChat /\ [][NextPrivilege]_vars

----------------------------------------------------------------------------
(* All the admin-gated commands and the censor, by senders of each role *)

\* an admin, a member, and a sender the membership query fails for
AuthActors == {a \in CommandActors : ~is_owner(a.sender)}

NextAuth ==
    \/ \E a \in AuthActors, target \in AuthTargets :
          warn_user(1, a.sender, a.chatType, a.member, target, TRUE, StoreUp(2, 2))
    \/ \E a \in AuthActors, target \in AuthTargets :
          remove_warn(1, a.sender, a.chatType, a.member, target, StoreUp(2, 1))
    \/ \E a \in AuthActors, target \in AuthTargets :
          ban_user(1, a.sender, a.chatType, a.member, target, TRUE, StoreUp(2, 1))
    \/ MemberCommands(AuthActors, {TRUE})
    \/ \E a \in AuthActors :
          set_countdown(1, a.sender, a.chatType, a.member, <<D_03_01_2025, N_Launch>>, TRUE)
    \/ \E a \in AuthActors :
          /\ perms[1] \in Snapshots
          /\ lock_feature(1, a.sender, a.chatType, a.member, <<F_all>>, "ok", TRUE)
    \/ \E a \in AuthActors :
          /\ perms[1] \in Snapshots
          /\ unlock_feature(1, a.sender, a.chatType, a.member, <<F_all>>, "ok", TRUE)
    \/ \E a \in AuthActors :
          ban_word(1, a.sender, a.chatType, a.member, <<W_spam>>, TRUE)
    \/ \E a \in AuthActors :
          unban_word(1, a.sender, a.chatType, a.member, <<W_spam>>, TRUE)
    \/ \E a \in AuthActors, reply \in {r \in ReplyMessages : r.text # <<>>} :
          set_filter(1, a.sender, a.chatType, a.member, reply, <<K_hello>>, TRUE)
    \/ \E a \in AuthActors :
          stop_filter(1, a.sender, a.chatType, a.member, <<K_hello>>, TRUE)
    \/ \E a \in AuthActors, text \in {T_goodbye, T_get_rich_spamnow} :
       \E order \in Orders(banned[1]) :
          handle_banned_words(1, a.sender, a.chatType, a.member, text, order,
                              TRUE, TRUE, TRUE)
SpecAuth == InitChat /\ [][NextAuth]_vars

----------------------------------------------------------------------------
(* Handlers in progress together *)

\* A handler is a coroutine: it runs until it awaits a call of the chat
\* platform, and other handlers run while it waits.  The store client is the
\* synchronous one, so the code between two awaited platform calls, store
\* calls included, runs as one step.  A task is a handler from its first such
\* step on; pc names the platform call it is waiting for, "done" when it has
\* returned.
MaxTasks == 4

Waiting(pc) == {i \in DOMAIN tasks : tasks[i].pc = pc}

\* warn_user up to the call it awaits next: the increment, then either
\* ban_chat_member or the reply.
warn_user_begin(g, sender, chatType, member, target) ==
    LET r1 == update_warn_count(warnings, g, target, 1, TRUE, TRUE)
        task == [op |-> "warn", group |-> g, target |-> target, calls |-> <<>>]
    IN  /\ Len(tasks) < MaxTasks
        /\ check_admin(chatType, sender, member) = "ok"
        /\ target # -1
        /\ IF WarnExempt(target)
           THEN /\ UNCHANGED warnings
                /\ tasks' = Append(tasks, task @@ [pc |-> "reply_text", new_warnings |-> 0,
                                                   reply |-> "cannot warn the owner"])
           ELSE /\ warnings' = r1.db
                /\ tasks' = Append(tasks, task @@
                      [new_warnings |-> r1.ret,
                       pc |-> IF WarnThresholdReached(r1.ret) THEN "ban_chat_member"
                              ELSE "reply_text",
                       reply |-> "warned"])
        /\ UNCHANGED <<run, perms, filters, banned, group_settings, broadcast_chats,
                       now, expiry, last>>

\* warn_user from the return of ban_chat_member to the reply: the reset by
\* the count this handler wrote, or the except branch when the call raised.
warn_user_banned(i, banOk) ==
    LET task == tasks[i]
        r2 == update_warn_count(warnings, task.group, task.target,
                                0 - task.new_warnings, TRUE, TRUE)
    IN  /\ i \in Waiting("ban_chat_member")
        /\ warnings' = IF banOk THEN r2.db ELSE warnings
        /\ tasks' = [tasks EXCEPT ![i] =
                        [@ EXCEPT !.pc = "reply_text",
                                  !.calls = Append(@, Call("ban_chat_member", banOk)),
                                  !.reply = IF banOk THEN "banned" ELSE "could not ban"]]
        /\ UNCHANGED <<run, perms, filters, banned, group_settings, broadcast_chats,
                       now, expiry, last>>

\* The reply a handler ends with has been sent.
task_replied(i) ==
    /\ i \in Waiting("reply_text")
    /\ tasks' = [tasks EXCEPT ![i] =
                    [@ EXCEPT !.pc = "done", !.calls = Append(@, Reply(tasks[i].reply))]]
    /\ UNCHANGED <<warnings, run, perms, filters, banned, group_settings, broadcast_chats,
                   now, expiry, last>>

\* /warn commands on one member of one group, from the owner and an admin.
WarnTaskActors == {a \in CommandActors : check_admin(a.chatType, a.sender, a.member) = "ok"}

NextWarnTasks ==
    \/ \E a \in WarnTaskActors, target \in Users :
          warn_user_begin(1, a.sender, a.chatType, a.member, target)
    \/ \E i \in DOMAIN tasks, banOk \in BOOLEAN : warn_user_banned(i, banOk)
    \/ \E i \in DOMAIN tasks : task_replied(i)
SpecWarnTasks == InitWarn /\ [][NextWarnTasks]_vars

MaxStatusTasks == 3

\* check_countdown up to the reply it awaits: the read of the record, the
\* comparison with the clock and, at or after the target, the update that
\* clears the record.  No platform call is awaited between the read and the
\* update.
check_countdown_begin(g) ==
    LET doc == to_dict(group_settings, g)
        task == [op |-> "check_countdown", group |-> g, target |-> -1, calls |-> <<>>,
                 pc |-> "reply_text", at |-> now, before |-> doc]
        target_date == fromisoformat(doc.fields["target_date_iso"])
        remaining_time == DateDiff(target_date, now)
    IN  /\ Len(tasks) < MaxStatusTasks
        /\ IF NoCountdown(doc)
           THEN /\ UNCHANGED <<group_settings, expiry>>
                /\ tasks' = Append(tasks, task @@ [reply |-> "no active countdown"])
           ELSE IF NotPositive(remaining_time)
           THEN /\ group_settings' = DeleteFields(group_settings, g, CountdownFields)
                /\ expiry' = [expiry EXCEPT ![g] = @ + 1]
                /\ tasks' = Append(tasks, task @@ [reply |-> "is here"])
           ELSE /\ UNCHANGED <<group_settings, expiry>>
                /\ tasks' = Append(tasks, task @@ [reply |-> "time remaining"])
        /\ UNCHANGED <<warnings, run, perms, filters, banned, broadcast_chats, now, last>>

\* One countdown is set, the clock passes its target, and /check_countdown
\* commands are handled together.
NextStatusTasks ==
    \/ /\ 1 \notin DOMAIN group_settings
       /\ set_countdown(1, OWNER_ID, "supergroup", "member", <<D_01_01_2025, N_Launch>>, TRUE)
    \/ PassTime
    \/ check_countdown_begin(1)
    \/ \E i \in DOMAIN tasks : task_replied(i)
SpecStatusTasks == InitChat /\ [][NextStatusTasks]_vars

----------------------------------------------------------------------------
(* Two groups side by side *)

\* The process starts on 1 January 2025 with a store that an earlier run
\* has written: group 2 holds a sticker filter for "Hello" and a countdown
\* to that day, now over; group 1 holds the banned word "spam".
InitIsolation ==
    /\ warnings = NoDocs
    /\ run = [p \in Groups \X Users |-> NoRun]
    /\ perms = [g \in Groups |-> Uniform("None")]
    /\ filters =
          [g \in Groups |->
              IF g = 2
              THEN Put(NoDocs, filter_doc_id(K_Hello),
                       filter_data_of(K_Hello,
                                      [present |-> TRUE, text |-> <<>>,
                                       sticker |-> "S1", photo |-> ""]))
              ELSE NoDocs]
    /\ banned =
          [g \in Groups |->
              IF g = 1 THEN Put(NoDocs, banned_word_doc_id(W_spam), W_spam) ELSE NoDocs]
    /\ broadcast_chats = NoDocs
    /\ expiry = [g \in Groups |-> 0]
    /\ tasks = <<>>
    /\ last = NoEvent
    /\ group_settings =
          Merge(NoDocs, 2,
                [countdown_name |-> N_New \o <<" ">> \o N_Year,
                 target_date_iso |-> isoformat(strptime(D_01_01_2025)),
                 target_date_human |-> D_01_01_2025])
    /\ now = At(1, 1, 2025, 10, 20, 30, 500000)

\* The handlers that read or write a group's data: the commands sent by the
\* owner about user 1 and the text messages sent by user 1.  The filter
\* commands arrive in group 1 and the banned-word commands in group 2, each
\* beside the other group's stored document of the same name; the other
\* handlers run in either group.  The chat platform and the store carry out
\* every call.
NextIsolation ==
    \/ \E g \in Groups :
          warn_user(g, OWNER_ID, "supergroup", "member", 1, TRUE, StoreUp(2, 2))
    \/ \E g \in Groups :
          remove_warn(g, OWNER_ID, "supergroup", "member", 1, StoreUp(2, 1))
    \/ \E g \in Groups :
          ban_user(g, OWNER_ID, "supergroup", "member", 1, TRUE, StoreUp(2, 1))
    \/ set_filter(1, OWNER_ID, "supergroup", "member",
                  [present |-> TRUE, text |-> <<"h","i">>, sticker |-> "", photo |-> ""],
                  <<K_hello>>, TRUE)
    \/ stop_filter(1, OWNER_ID, "supergroup", "member", <<K_hello>>, TRUE)
    \/ ban_word(2, OWNER_ID, "supergroup", "member", <<W_spam>>, TRUE)
    \/ unban_word(2, OWNER_ID, "supergroup", "member", <<W_spam>>, TRUE)
    \/ \E g \in Groups :
          set_countdown(g, OWNER_ID, "supergroup", "member", <<D_03_01_2025, N_Launch>>, TRUE)
    \/ \E g \in Groups :
          check_countdown(g, TRUE, TRUE)
    \/ \E g \in Groups :
       \E order \in Orders(filters_collection_ref(filters, g)) :
          handle_filters(g, T_Hello_spam, order, TRUE, TRUE)
    \/ \E g \in Groups :
       \E order \in Orders(banned_words_ref(banned, g)) :
          handle_banned_words(g, 1, "supergroup", "member", T_Hello_spam, order,
                              TRUE, TRUE, TRUE)
SpecIsolation == InitIsolation /\ [][NextIsolation]_vars

----------------------------------------------------------------------------
(* Properties *)

CallsNamed(calls, name) == {i \in DOMAIN calls : calls[i].call = name}

\* C1: the stored warning count of every (group, user) is an integer >= 0 in
\* every reachable state, whatever the sequence of warn, removewarn and ban
\* commands and whichever store calls fail.
C1_WarningsNeverNegative ==
    \A p \in DOMAIN warnings : warnings[p] \in Nat

\* C1 witness: a warn that banned has reset a stored count to 0.
C1_ResetReached ==
    /\ last.op = "warn"
    /\ CallsNamed(last.calls, "ban_chat_member") # {}
    /\ last.calls[1].ok
    /\ <<last.group, last.target>> \in DOMAIN warnings
    /\ warnings[<<last.group, last.target>>] = 0

\* C2: from a stored count of 0, three warn commands in a row on a pair that
\* is not the owner, by an admin, with the ban call succeeding, issue no ban
\* in the first two and exactly one in the third, and leave the count at 0.
C2_ThreeWarnsOneBan ==
    \A p \in DOMAIN run :
        /\ run[p].n \in {1, 2} => run[p].bans = 0
        /\ run[p].n = 3 =>
              /\ run[p].bans = 1
              /\ get_warn_count(warnings, p[1], p[2], TRUE) = 0

\* C2 witness: a third warn in a row has been handled.
C2_ThirdWarnReached ==
    \E p \in DOMAIN run : run[p].n = 3 /\ last.op = "warn" /\ last.target = p[2]

\* C3: a warn command whose target is the owner changes no stored warning
\* count and issues no ban, whoever sends it.
C3_OwnerNeverWarned ==
    [][(last'.op = "warn" /\ last'.target = OWNER_ID) =>
          /\ warnings' = warnings
          /\ CallsNamed(last'.calls, "ban_chat_member") = {}]_vars

\* C3 witness: an admin's warn command against the owner has been handled.
C3_AdminWarnedOwner ==
    /\ last.op = "warn"
    /\ last.target = OWNER_ID
    /\ last.role = "Admin"
    /\ last.auth = "ok"

\* The table of section 4.3: feature -> capabilities set to !lock.
SpecFeatures == {F_all, F_text, F_stickers, F_media, F_images, F_audio}
SpecTable(feature) ==
    CASE feature = F_all -> Caps
      [] feature = F_text -> {"can_send_messages"}
      [] feature = F_stickers -> {"can_send_other_messages"}
      [] feature = F_media -> {"can_send_photos", "can_send_videos", "can_send_documents",
                               "can_send_audios", "can_send_voice_notes",
                               "can_send_video_notes", "can_send_other_messages"}
      [] feature = F_images -> {"can_send_photos"}
      [] feature = F_audio -> {"can_send_audios", "can_send_voice_notes"}

\* A lock or unlock command of an authorized sender with a selector of the table.
LockComputed ==
    /\ last.op = "lock"
    /\ last.auth = "ok"
    /\ last.args # <<>>
    /\ Lower(last.args[1]) \in SpecFeatures

\* The value the command saw for a capability: the snapshot's, or true when
\* the snapshot does not tell (None, no permissions, or the fetch failed).
SeenValue(c) ==
    IF last.fetch = "ok" /\ last.snapshot[c] # "None"
    THEN last.snapshot[c] = "True"
    ELSE TRUE

\* C4: for each feature of the table, in any letter case, and each lock flag,
\* the capabilities given the value !lock are those of the table: each of
\* them has the value !lock, and no other capability is changed to it.
C4_FeatureTable ==
    LockComputed =>
        LET sent == last.calls[1].permissions
            named == SpecTable(Lower(last.args[1]))
        IN  /\ last.calls[1].call = "set_chat_permissions"
            /\ \A c \in named : sent[c] = ~last.lock
            /\ {c \in Caps : sent[c] # SeenValue(c)} \subseteq named
            /\ Lower(last.args[1]) = F_all => \A c \in Caps : sent[c] = ~last.lock

\* C4 witness: "media" was locked when every capability of it was allowed.
C4_MediaLocked ==
    /\ LockComputed
    /\ last.lock
    /\ last.args[1] = F_media
    /\ \A c \in SpecTable(F_media) : SeenValue(c)

\* C5: a capability the feature does not name keeps, in the computed set, the
\* value of the snapshot, or true when the snapshot does not tell.
C5_OtherCapabilitiesKept ==
    LockComputed =>
        \A c \in Caps \ SpecTable(Lower(last.args[1])) :
            last.calls[1].permissions[c] = SeenValue(c)

\* C5 witness: "audio" was locked while a capability it does not name was
\* denied and another one unknown in the snapshot.
C5_AudioLockedOnMixedSnapshot ==
    /\ LockComputed
    /\ last.lock
    /\ last.args[1] = F_audio
    /\ last.fetch = "ok"
    /\ \E c, d \in Caps \ SpecTable(F_audio) :
          last.snapshot[c] = "False" /\ last.snapshot[d] = "None"

\* C6: a command with no selector of the table makes no set_chat_permissions
\* call and leaves the permissions as they were; one with a selector of the
\* table makes exactly one such call, carrying all ten capabilities.
C6_UnknownFeatureNoCall ==
    (last.op = "lock" /\ last.auth = "ok") =>
        IF LockComputed
        THEN /\ Cardinality(CallsNamed(last.calls, "set_chat_permissions")) = 1
             /\ DOMAIN last.calls[1].permissions = Caps
        ELSE /\ CallsNamed(last.calls, "set_chat_permissions") = {}
             /\ perms[last.group] = last.snapshot

\* C6 witness: an authorized command with a selector outside the table.
C6_UnknownSelectorHandled ==
    /\ last.op = "lock"
    /\ last.auth = "ok"
    /\ last.args # <<>>
    /\ Lower(last.args[1]) \notin SpecFeatures

\* The stored filters whose case-folded keyword is in the case-folded text.
MatchingFilters(g, text) ==
    {id \in DOMAIN filters[g] :
        Contains(Lower(text), Lower(filters[g][id].keyword))}

PayloadOf(doc) ==
    [call |-> IF doc.type = "text" THEN "reply_text"
              ELSE IF doc.type = "sticker" THEN "reply_sticker" ELSE "reply_photo",
     content |-> doc.content, file_id |-> doc.file_id]

\* C7: the filter handler replies if and only if some stored filter of the
\* group has a case-folded keyword inside the case-folded text, and what it
\* sends is the payload stored for such a filter.
C7_FilterMatch ==
    last.op = "handle_filters" =>
        LET hits == MatchingFilters(last.group, last.text)
        IN  /\ last.calls # <<>> <=> hits # {}
            /\ last.calls # <<>> =>
                  \E id \in hits :
                      PayloadOf(filters[last.group][id]) =
                          [call |-> last.calls[1].call,
                           content |-> last.calls[1].content,
                           file_id |-> last.calls[1].file_id]

\* C7 witness: with a filter set for "Hello", "well hello there" got its reply.
C7_HelloReplied ==
    /\ last.op = "handle_filters"
    /\ last.text = T_well_hello_there
    /\ last.calls # <<>>
    /\ DOMAIN filters[last.group] = {K_hello}
    /\ filters[last.group][K_hello].keyword = K_Hello

\* C8: the filter selected for a message is the same whatever order the
\* store's stream returns the documents in.
C8_SelectionIgnoresStreamOrder ==
    (last.op = "handle_filters" /\ last.calls # <<>>) =>
        \A o \in Orders(filters[last.group]) :
            first_filter(filters[last.group], o, Lower(last.text)) = last.calls[1].doc

\* Some banned word of the group is inside the case-folded text.
HasBannedWord(g, text) ==
    \E id \in DOMAIN banned[g] : Contains(Lower(text), banned[g][id])

\* C9: the censor attempts no deletion and no notice for a sender who is the
\* owner or an admin; for a member it attempts a deletion if and only if some
\* banned word of the group is inside the case-folded text.
C9_CensorByRole ==
    last.op = "handle_banned_words" =>
        /\ last.role \in {"Owner", "Admin"} => last.calls = <<>>
        /\ last.role = "Member" =>
              (CallsNamed(last.calls, "delete_message") # {}
                  <=> HasBannedWord(last.group, last.text))

\* C9 witness: a member's "get rich spamnow" met the banned word "spam".
C9_MemberSpamDeleted ==
    /\ last.op = "handle_banned_words"
    /\ last.role = "Member"
    /\ last.text = T_get_rich_spamnow
    /\ CallsNamed(last.calls, "delete_message") # {}
    /\ last.calls[1].word = W_spam

\* C10: every text message of a member that holds a banned word of the group
\* leads to a deletion attempt, with the handlers as main registered them.
C10_MemberBannedTextDeleted ==
    (last.op = "text_update" /\ last.role = "Member"
        /\ HasBannedWord(last.group, last.text)) =>
        CallsNamed(last.calls, "delete_message") # {}

\* A set_countdown command that got as far as comparing its date with the clock.
DatedSet ==
    /\ last.op = "set_countdown"
    /\ last.auth = "ok"
    /\ Len(last.args) >= 2
    /\ ValidDate(last.args[1])

\* The target of the command minus the clock it was handled at.
SetAhead == DateDiff(strptime(last.args[1]), last.at)

\* C11: a set-countdown whose target is before the clock is rejected and the
\* group's stored record is what it was before: no record stays no record,
\* and an active countdown is neither overwritten nor cleared.
C11_PastSetRejected ==
    (DatedSet /\ SetAhead.days < 0) =>
        /\ last.calls = <<Reply("must be in the future")>>
        /\ to_dict(group_settings, last.group) = last.before
        /\ NoCountdown(last.before) => NoCountdown(to_dict(group_settings, last.group))

\* C11 witness: a set with a past date was handled while a countdown was active.
C11_PastSetOnActive ==
    /\ DatedSet
    /\ SetAhead.days < 0
    /\ ~NoCountdown(last.before)

\* C12: a set-countdown whose target is not strictly later than the clock,
\* the target equal to the clock included, is rejected with the past-date
\* reply and stores nothing.
C12_OnlyStrictlyFutureStored ==
    (DatedSet /\ NotPositive(SetAhead)) =>
        /\ last.calls = <<Reply("must be in the future")>>
        /\ to_dict(group_settings, last.group) = last.before

\* The target stored in the record a status request found, minus the clock.
StatusAhead == DateDiff(fromisoformat(last.before.fields["target_date_iso"]), last.at)

\* C13: a status request answers "time remaining" with the stored name while
\* the clock is before the target and leaves the record; at or after the
\* target it answers "is here" and clears the record; with no record it
\* answers "no active countdown".  Between two sets the expiry is reported
\* at most once, and once it is reported no countdown is stored.
C13_StatusLifecycle ==
    /\ last.op = "check_countdown" =>
          IF NoCountdown(last.before)
          THEN /\ last.calls = <<Reply("no active countdown")>>
               /\ to_dict(group_settings, last.group) = last.before
          ELSE IF ~NotPositive(StatusAhead)
          THEN /\ last.calls[1].text = "time remaining"
               /\ last.calls[1].name = last.before.fields["countdown_name"]
               /\ to_dict(group_settings, last.group) = last.before
          ELSE /\ last.calls[1].text = "is here"
               /\ last.calls[1].name = last.before.fields["countdown_name"]
               /\ NoCountdown(to_dict(group_settings, last.group))
    /\ \A g \in Groups :
          /\ expiry[g] <= 1
          /\ expiry[g] = 1 => NoCountdown(to_dict(group_settings, g))

\* C13 witness: after the expiry was reported, a status request found no
\* countdown.
C13_NoneActiveAfterExpiry ==
    /\ last.op = "check_countdown"
    /\ expiry[last.group] = 1
    /\ last.before.exists
    /\ last.calls = <<Reply("no active countdown")>>

\* The whole seconds between the clock of a status request and the target.
FloorSeconds ==
    LET t == fromisoformat(last.before.fields["target_date_iso"])
    IN  (toordinal(t) - toordinal(last.at)) * 86400
          + (t.hour - last.at.hour) * 3600 + (t.minute - last.at.minute) * 60
          + (t.second - last.at.second)
          - (IF last.at.microsecond > t.microsecond THEN 1 ELSE 0)

\* C19: the days, hours, minutes and seconds a status request shows add up
\* to the whole seconds that remain, rounded down, with hours below 24 and
\* minutes and seconds below 60.
C19_DurationDecomposition ==
    (last.op = "check_countdown" /\ last.calls[1].text = "time remaining") =>
        LET p == last.calls[1].parts
        IN  /\ p.days * 86400 + p.hours * 3600 + p.minutes * 60 + p.seconds = FloorSeconds
            /\ p.days >= 0
            /\ p.hours \in 0..23
            /\ p.minutes \in 0..59
            /\ p.seconds \in 0..59

\* C19 witness: more than a day, an hour and a minute remained, with a
\* fraction of a second to round down.
C19_DaysHoursMinutesShown ==
    /\ last.op = "check_countdown"
    /\ last.calls[1].text = "time remaining"
    /\ last.calls[1].parts.days >= 1
    /\ last.calls[1].parts.hours >= 1
    /\ last.calls[1].parts.minutes >= 1
    /\ last.at.microsecond > 0

\* The tracked chats a broadcast from the chat of `last` is to reach.
BroadcastTargets ==
    {id \in DOMAIN broadcast_chats : broadcast_chats[id].chat_id # Str(last.group)}

\* C14: a broadcast of the owner that carries a message makes one send to
\* every tracked chat but the invoking one, whichever sends fail, and then
\* reports as sent_count the sends that succeeded and as failed_count those
\* that failed, the two adding up to the number of those chats.
C14_BroadcastReachesEveryTarget ==
    (last.op = "broadcast" /\ last.role = "Owner" /\ CommandArgs(last.text) # <<>>) =>
        LET sends == CallsNamed(last.calls, "send_message")
            report == last.calls[Len(last.calls)]
        IN  /\ \A t \in BroadcastTargets :
                  Cardinality({i \in sends : last.calls[i].chat_id = t}) = 1
            /\ Cardinality(sends) = Cardinality(BroadcastTargets)
            /\ last.calls # <<>>
            /\ report.call = "reply_text"
            /\ report.text = "broadcast complete"
            /\ report.sent_count = Cardinality({i \in sends : last.calls[i].ok})
            /\ report.failed_count = Cardinality({i \in sends : ~last.calls[i].ok})
            /\ report.sent_count + report.failed_count = Cardinality(BroadcastTargets)

\* C15: a broadcast command of anyone but the owner, an admin included, is
\* answered with the fixed rejection alone, whatever its arguments: no send,
\* no read of the tracked chats, and no stored state changed.
C15_NonOwnerBroadcastRejected ==
    [][(last'.op = "broadcast" /\ last'.role # "Owner") =>
          /\ last'.calls = <<Reply("restricted to the owner")>>
          /\ ~last'.streamed
          /\ UNCHANGED <<warnings, filters, banned, group_settings, broadcast_chats>>]_vars

\* C15 witness: an admin sent /broadcast with no message while chats were
\* tracked.
C15_AdminBroadcastRejected ==
    /\ last.op = "broadcast"
    /\ last.role = "Admin"
    /\ CommandArgs(last.text) = <<>>
    /\ broadcast_chats # NoDocs

\* The admin-gated commands, by the name `last` records them under (lock and
\* unlock are both "lock"), and the chat-platform calls that moderate.
GatedOps == {"warn", "removewarn", "ban", "unban", "mute", "unmute", "promote",
             "set_countdown", "lock", "ban_word", "unban_word", "filter", "stop"}
PrivilegedCalls == {"ban_chat_member", "unban_chat_member", "restrict_chat_member",
                    "promote_chat_member", "set_chat_permissions"}
Moderating(calls) == {i \in DOMAIN calls : calls[i].call \in PrivilegedCalls}

\* C16: an admin-gated command of a sender who resolves to Member changes no
\* warning count, filter, banned word or countdown, nor the group's
\* permissions, and makes no ban, unban, restrict, promote or
\* set-permissions call.
C16_MemberCommandNoEffect ==
    [][(last'.op \in GatedOps /\ last'.role = "Member") =>
          /\ UNCHANGED <<warnings, filters, banned, group_settings, perms>>
          /\ Moderating(last'.calls) = {}]_vars

\* C16 witness: a member sent /warn about a user whose count and whose
\* group's filters, banned words and countdown were all stored.
C16_MemberWarnOnFullStore ==
    /\ last.op = "warn"
    /\ last.role = "Member"
    /\ last.target = 1
    /\ get_warn_count(warnings, 1, 1, TRUE) > 0
    /\ filters[1] # NoDocs
    /\ banned[1] # NoDocs
    /\ ~NoCountdown(to_dict(group_settings, 1))

\* C17: when get_chat_member fails for a sender who is not the owner, an
\* admin-gated command is not authorized, changes no stored state and makes
\* no moderating call; and the censor does not exempt the sender: it attempts
\* the deletion exactly when a banned word of the group is in the text.
C17_QueryErrorNeverAdmin ==
    [][last'.role = "QueryError" =>
          /\ last'.op \in GatedOps =>
                /\ last'.auth # "ok"
                /\ UNCHANGED <<warnings, filters, banned, group_settings, perms>>
                /\ Moderating(last'.calls) = {}
          /\ last'.op = "handle_banned_words" =>
                (CallsNamed(last'.calls, "delete_message") # {}
                    <=> HasBannedWord(last'.group, last'.text))]_vars

\* C17 witness: the censor deleted the message of a sender the membership
\* query failed for.
C17_QueryErrorMessageDeleted ==
    /\ last.op = "handle_banned_words"
    /\ last.role = "QueryError"
    /\ CallsNamed(last.calls, "delete_message") # {}

\* C18: the owner passes check_admin in a group, a supergroup, a channel and
\* a private chat, whatever get_chat_member would answer about them, its
\* failure included; a sender who is not the owner is denied in a chat that
\* is no group or channel, and no moderating call is made for them.
C18_OwnerAlwaysPasses ==
    last.op \in {"unban", "mute", "unmute", "promote"} =>
        /\ is_owner(last.sender) => last.auth = "ok"
        /\ (~is_owner(last.sender) /\ last.chatType \notin GroupChatTypes) =>
              /\ last.auth = "denied"
              /\ Moderating(last.calls) = {}

\* C18 witness: the owner promoted a user in a channel where get_chat_member
\* would have failed.
C18_OwnerInChannelQueryFailing ==
    /\ last.op = "promote"
    /\ is_owner(last.sender)
    /\ last.chatType = "channel"
    /\ last.member = "raise"
    /\ Moderating(last.calls) # {}

\* C20: a warn whose ban call fails leaves the incremented count stored and
\* makes that one ban call only; a warn of an authorized sender on a pair
\* whose stored count is 3 or more increments it again and makes a ban call
\* again.
C20_FailedBanKeepsCount ==
    [][last'.op = "warn" =>
          LET p == <<last'.group, last'.target>>
              pre == get_warn_count(warnings, p[1], p[2], TRUE)
              bans == CallsNamed(last'.calls, "ban_chat_member")
          IN  /\ (bans # {} /\ \E i \in bans : ~last'.calls[i].ok) =>
                    /\ warnings' = Put(warnings, p, pre + 1)
                    /\ Cardinality(bans) = 1
              /\ (last'.auth = "ok" /\ last'.target \notin {-1, OWNER_ID}
                     /\ pre >= BanThreshold) =>
                    /\ Cardinality(bans) = 1
                    /\ warnings'[p] = IF last'.calls[1].ok THEN 0 ELSE pre + 1]_vars

\* C20 witness: the ban call failed a second time in a row, the count now 4.
C20_SecondFailedBan ==
    /\ last.op = "warn"
    /\ CallsNamed(last.calls, "ban_chat_member") # {}
    /\ ~last.calls[1].ok
    /\ warnings[<<last.group, last.target>>] = BanThreshold + 1

\* C21: each group holds at most one filter per keyword taken lower-cased
\* and stripped; a set that is carried out leaves under that keyword exactly
\* the keyword and payload it was given, whatever the case of the keyword a
\* filter was stored with before; a remove takes away the filter of that
\* keyword in any case; nothing else changes the group's filters.
C21_OneFilterPerKeyword ==
    [][\A g \in Groups :
          LET Norm(k) == Strip(Lower(k))
              docs == filters'[g]
              here == last'.op \in {"filter", "stop"} /\ last'.group = g
          IN  /\ \A d1, d2 \in DOMAIN docs :
                     Norm(docs[d1].keyword) = Norm(docs[d2].keyword) => d1 = d2
              /\ IF here /\ last'.calls = <<Reply("filter set")>>
                 THEN docs = Put(filters[g], Norm(last'.args[1]),
                                 filter_data_of(last'.args[1], last'.reply))
                 ELSE IF here /\ last'.calls = <<Reply("filter stopped")>>
                 THEN /\ Norm(last'.args[1]) \in DOMAIN filters[g]
                      /\ docs = Del(filters[g], Norm(last'.args[1]))
                 ELSE docs = filters[g]]_vars

\* C21 witness: a set with a keyword in another case than the stored one
\* replaced the stored filter, its keyword and its payload.
C21_CaseVariantOverwrote ==
    /\ last.op = "filter"
    /\ last.calls = <<Reply("filter set")>>
    /\ last.before.exists
    /\ last.before.fields.keyword # last.args[1]
    /\ last.before.fields.type # filter_data_of(last.args[1], last.reply).type
    /\ DOMAIN filters[last.group] = {K_hello, K_ell}
    /\ filters[last.group][K_hello] = filter_data_of(last.args[1], last.reply)

\* C22: a filter remove or a banned-word unban that is carried out on a key
\* the group does not hold leaves every collection of the store as it was and
\* replies not-found; on a key the group holds it deletes that document and
\* nothing else; so the same remove or unban handled again right after
\* changes nothing.
C22_RemoveIdempotent ==
    [][(last'.op \in {"stop", "unban_word"} /\ last'.auth = "ok" /\ last'.args # <<>>) =>
          \E op \in {last'.op}, g \in {last'.group} :
          \E word \in {Strip(Lower(last'.args[1]))} :
          \E safe_word \in {Lower(Strip(word))} :
          \E id \in {IF op = "stop" THEN word ELSE ReplaceSpace(safe_word)} :
             LET coll == IF op = "stop" THEN filters ELSE banned
                 coll2 == IF op = "stop" THEN filters' ELSE banned'
                 again == /\ last.op = op
                          /\ last.group = g
                          /\ last.args = last'.args
                          /\ last.auth = "ok"
             IN  /\ op = "stop" => banned' = banned
                 /\ op = "unban_word" => filters' = filters
                 /\ UNCHANGED <<warnings, group_settings, broadcast_chats>>
                 /\ \A h \in Groups \ {g} : coll2[h] = coll[h]
                 /\ IF id \in DOMAIN coll[g]
                    THEN /\ coll2[g] = [d \in DOMAIN coll[g] \ {id} |-> coll[g][d]]
                         /\ last'.calls \in {<<Reply("filter stopped")>>,
                                             <<Reply("word unbanned")>>}
                    ELSE /\ coll2 = coll
                         /\ last'.calls = <<Reply("not found")>>
                 /\ again => coll2 = coll]_vars

\* C22 witness: an unban of a word the group does not hold, with another
\* banned word and a filter stored, was answered not-found.
C22_AbsentWordNotFound ==
    /\ last.op = "unban_word"
    /\ last.calls = <<Reply("not found")>>
    /\ ~last.before.exists
    /\ DOMAIN banned[last.group] # {}
    /\ DOMAIN filters[last.group] # {}

\* C23: a group's settings document holds the three countdown fields all
\* together or not at all.  A set that is carried out leaves the name, the
\* target instant and the display string of that one command, whatever was
\* stored before; an expiry report removes the three; every other step
\* leaves them; and a status reports the stored name and display string.
C23_OneCountdownPerGroup ==
    [][\A g \in Groups :
          LET doc == to_dict(group_settings, g)
              doc2 == to_dict(group_settings', g)
              held == IF doc2.exists THEN DOMAIN doc2.fields \cap CountdownFields ELSE {}
              here == /\ last' # last
                      /\ last'.op \in {"set_countdown", "check_countdown"}
                      /\ last'.group = g
              reply == last'.calls[1]
          IN  /\ held \in {{}, CountdownFields}
              /\ IF here /\ last'.calls = <<Reply("countdown set")>>
                 THEN /\ held = CountdownFields
                      /\ doc2.fields.countdown_name = Join(Tail(last'.args))
                      /\ doc2.fields.target_date_human = last'.args[1]
                      /\ doc2.fields.target_date_iso = isoformat(strptime(last'.args[1]))
                 ELSE IF here /\ last'.calls # <<>> /\ reply.text = "is here"
                 THEN /\ held = {}
                      /\ reply.name = doc.fields.countdown_name
                 ELSE /\ doc2 = doc
                      /\ (here /\ last'.calls # <<>> /\ reply.text = "time remaining") =>
                             /\ reply.name = doc.fields.countdown_name
                             /\ reply.human = doc.fields.target_date_human]_vars

\* C23 witness: a set was carried out on a group whose stored countdown had
\* another name and another date, and the record now holds the new ones.
C23_SetReplacedCountdown ==
    /\ last.op = "set_countdown"
    /\ last.calls = <<Reply("countdown set")>>
    /\ ~NoCountdown(last.before)
    /\ last.before.fields.countdown_name # Join(Tail(last.args))
    /\ last.before.fields.target_date_human # last.args[1]
    /\ group_settings[last.group].countdown_name = Join(Tail(last.args))
    /\ group_settings[last.group].target_date_human = last.args[1]

\* C24: in one broadcast no two sends go to the same chat, so a failed send
\* is not made again; no send goes to the chat the command came from; every
\* send goes to a tracked chat, so there are no more sends than tracked
\* chats; and the report that ends the handler follows the last send.
C24_OnePassNoRetry ==
    last.op = "broadcast" =>
        LET sends == CallsNamed(last.calls, "send_message")
        IN  /\ \A i, j \in sends :
                  last.calls[i].chat_id = last.calls[j].chat_id => i = j
            /\ \A i \in sends : last.calls[i].chat_id # Str(last.group)
            /\ \A i \in sends :
                  \E id \in DOMAIN broadcast_chats :
                      broadcast_chats[id].chat_id = last.calls[i].chat_id
            /\ Cardinality(sends) <= Cardinality(DOMAIN broadcast_chats)
            /\ \A i \in sends : i < Len(last.calls)
            /\ Cardinality(DOMAIN last.calls \ sends) <= 1

\* C24 witness: the owner's broadcast came from a tracked chat, was sent to
\* two other chats and one of the two sends failed.
C24_FailedSendNotRetried ==
    /\ last.op = "broadcast"
    /\ \E id \in DOMAIN broadcast_chats : broadcast_chats[id].chat_id = Str(last.group)
    /\ Cardinality(CallsNamed(last.calls, "send_message")) = 2
    /\ \E i \in CallsNamed(last.calls, "send_message") : ~last.calls[i].ok
    /\ \E i \in CallsNamed(last.calls, "send_message") : last.calls[i].ok

\* C25: for one message the censor makes at most one deletion call and at
\* most one notification, however many banned words are in the text; a
\* notification comes after a deletion that succeeded; a deletion that
\* failed is the handler's only call.
C25_OneDeletionPerMessage ==
    last.op = "handle_banned_words" =>
        LET deletions == CallsNamed(last.calls, "delete_message")
            notices == CallsNamed(last.calls, "send_message")
        IN  /\ Cardinality(deletions) <= 1
            /\ Cardinality(notices) <= 1
            /\ \A n \in notices : \E d \in deletions : d < n /\ last.calls[d].ok
            /\ (\E d \in deletions : ~last.calls[d].ok) => Len(last.calls) = 1
            /\ DOMAIN last.calls = deletions \cup notices

\* C25 witness: a text with two of the group's banned words in it, and the
\* deletion failed.
C25_TwoWordsDeletionFailed ==
    /\ last.op = "handle_banned_words"
    /\ Cardinality({id \in DOMAIN banned[last.group] :
                       WordMatches(banned[last.group][id], Lower(last.text))}) >= 2
    /\ last.calls # <<>>
    /\ ~last.calls[1].ok

\* C26: a record for a (group, user) pair comes into the store only in a
\* step that handles a warn of that user in that group; removewarn, the
\* warns query, the ban command and a rejected warn create none.
C26_RecordOnlyAfterWarn ==
    [][\A pair \in (DOMAIN warnings') \ (DOMAIN warnings) :
          /\ last'.op = "warn"
          /\ last'.auth = "ok"
          /\ pair = <<last'.group, last'.target>>
          /\ ~WarnExempt(last'.target)]_vars

\* C27: after a lock that the platform carried out, every capability that
\* was false in the group's permissions before the command is false in the
\* permissions sent and in the group's permissions, whether the fetch
\* answered, answered without permissions, or failed.
C27_LockNeverGrants ==
    (LockComputed /\ last.lock /\ last.calls[1].ok) =>
        \A c \in Caps :
            last.snapshot[c] = "False" =>
                /\ ~last.calls[1].permissions[c]
                /\ perms[last.group][c] = "False"

\* C27 as amended: after a lock that the platform carried out, every
\* capability the fetch returned as false is false in the permissions sent
\* and in the group's permissions; when the fetch failed or returned no
\* permissions, every capability the feature does not name is sent as true.
C27_LockKeepsFetchedDenials ==
    (LockComputed /\ last.lock /\ last.calls[1].ok) =>
        \A c \in Caps :
            /\ (last.fetch = "ok" /\ last.snapshot[c] = "False") =>
                   /\ ~last.calls[1].permissions[c]
                   /\ perms[last.group][c] = "False"
            /\ (last.fetch # "ok" /\ c \notin SpecTable(Lower(last.args[1]))) =>
                   /\ last.calls[1].permissions[c]
                   /\ perms[last.group][c] = "True"

\* C27 witness: "text" was locked, the fetch answered, and a capability it
\* does not name that was denied before is still denied.
C27_FetchedDenialKept ==
    /\ LockComputed
    /\ last.lock
    /\ last.calls[1].ok
    /\ last.fetch = "ok"
    /\ last.args[1] = F_text
    /\ last.snapshot["can_send_photos"] = "False"
    /\ perms[last.group]["can_send_photos"] = "False"

\* The warn handlers of a pair, those of them that called ban_chat_member,
\* and whether every handler has returned with every ban call carried out.
WarnTasks(pair) ==
    {i \in DOMAIN tasks : tasks[i].op = "warn" /\ <<tasks[i].group, tasks[i].target>> = pair}

BanActions(pair) ==
    {i \in WarnTasks(pair) : CallsNamed(tasks[i].calls, "ban_chat_member") # {}}

AllWarnsFinished ==
    /\ \A i \in DOMAIN tasks : tasks[i].pc = "done"
    /\ \A i \in DOMAIN tasks : \A k \in DOMAIN tasks[i].calls : tasks[i].calls[k].ok

ExpiryReports ==
    {i \in DOMAIN tasks : tasks[i].op = "check_countdown" /\ tasks[i].reply = "is here"}

\* C29: of the /check_countdown handlers in progress on one countdown, at
\* most one reports the expiry, and every handler after it finds no active
\* countdown.
C29_OneExpiryReport ==
    /\ Cardinality(ExpiryReports) <= 1
    /\ \A i \in ExpiryReports, j \in DOMAIN tasks :
          j > i => tasks[j].reply = "no active countdown"

\* C29 witness: two handlers wait for their replies at the same time, the
\* first with the expiry report, the second with no active countdown, both
\* handled at or after the target.
C29_TwoStatusCallsTogether ==
    /\ Len(tasks) >= 2
    /\ tasks[1].pc = "reply_text" /\ tasks[1].reply = "is here"
    /\ tasks[2].pc = "reply_text" /\ tasks[2].reply = "no active countdown"
    /\ tasks[2].at = tasks[1].at

\* C30: a ban command that reaches the ban call leaves the target's stored
\* count at 0 when the call was carried out, and leaves the store exactly as
\* it was when the call failed; no other pair's count changes either way.
C30_BanResetsIffBanned ==
    [][(last'.op = "ban" /\ last'.auth = "ok" /\ last'.target # -1) =>
          LET g == last'.group
              target == last'.target
          IN  /\ last'.calls[1].call = "ban_chat_member"
              /\ last'.calls[1].ok => get_warn_count(warnings', g, target, TRUE) = 0
              /\ ~last'.calls[1].ok => warnings' = warnings
              /\ \A pair \in (Groups \X Users) \ {<<g, target>>} :
                    get_warn_count(warnings', pair[1], pair[2], TRUE) =
                        get_warn_count(warnings, pair[1], pair[2], TRUE)]_vars

\* C30 witness: a ban command whose ban call failed left the target's count
\* of 2 in the store.
C30_FailedBanAtTwo ==
    /\ last.op = "ban"
    /\ last.auth = "ok"
    /\ last.target = 1
    /\ ~last.calls[1].ok
    /\ get_warn_count(warnings, last.group, 1, TRUE) = 2

\* the documents the store holds for one group
GroupData(w, f, b, s, h) ==
    [warnings |-> [u \in {x \in Users : <<h, x>> \in DOMAIN w} |-> w[<<h, u>>]],
     filters |-> f[h],
     banned |-> b[h],
     countdown |-> to_dict(s, h)]

\* C31: a handler changes the warning counts, filters, banned words and
\* countdown of no group but the one its update came from, and a text message
\* is matched against the filters and the banned words of its own group only:
\* it is answered (deleted) exactly when a keyword (word) stored for its
\* group is in its text, with that document's content.
C31_GroupIsolation ==
    [][/\ \A h \in Groups :
            GroupData(warnings', filters', banned', group_settings', h) #
                GroupData(warnings, filters, banned, group_settings, h)
            => last'.group = h
       /\ (last' # last /\ last'.op = "handle_filters") =>
            \E message_text \in {Lower(last'.text)} :
            LET docs == filters[last'.group]
                hits == {id \in DOMAIN docs : KeywordMatches(docs[id], message_text)}
                calls == last'.calls
            IN  /\ (calls = <<>>) = (hits = {})
                /\ \A i \in DOMAIN calls :
                      /\ calls[i].doc \in hits
                      /\ calls[i].content = docs[calls[i].doc].content
                      /\ calls[i].file_id = docs[calls[i].doc].file_id
       /\ (last' # last /\ last'.op = "handle_banned_words") =>
            \E message_text \in {Lower(last'.text)} :
            LET docs == banned[last'.group]
                hits == {id \in DOMAIN docs : WordMatches(docs[id], message_text)}
                calls == last'.calls
            IN  /\ (calls = <<>>) = (hits = {})
                /\ \A i \in DOMAIN calls :
                      calls[i].doc \in hits /\ calls[i].word = docs[calls[i].doc]]_vars

\* C31 witness: the third warning of user 1 in group 1 banned them and reset
\* their count there, while group 2 kept its count of 2 for the same user, its
\* filter, its banned word and its countdown.
C31_BanInOneGroupOnly ==
    /\ last.op = "warn"
    /\ last.group = 1
    /\ last.calls[1].call = "ban_chat_member"
    /\ get_warn_count(warnings, 1, 1, TRUE) = 0
    /\ <<2, 1>> \in DOMAIN warnings
    /\ warnings[<<2, 1>>] = 2
    /\ filter_doc_id(K_Hello) \in DOMAIN filters[2]
    /\ filter_doc_id(K_Hello) \notin DOMAIN filters[1]
    /\ banned_word_doc_id(W_spam) \in DOMAIN banned[2]
    /\ ~NoCountdown(to_dict(group_settings, 2))

============================================================================
